---------------------------- MODULE Spec2Model ----------------------------
(***************************************************************************)
(* The index-expression ("Ricci notation") compiler of tensorism:          *)
(* parsing.rs (scope parser), types.rs (scope tree, IndexUse, TensorUse)   *)
(* and sequentialization.rs (header and body emission), together with the  *)
(* execution of the header the compiler emits.                              *)
(***************************************************************************)
EXTENDS Integers, Sequences, FiniteSets, TLC

(***************************************************************************)
(* Bounds of the explored inputs.                                          *)
(***************************************************************************)
\* total number of tokens (groups included) of the exhaustively enumerated trees
MaxTokens == 3
\* longest identifier list written in front of a $ by the generated programs
MaxDecl == 2
\* longest subscript list, in tokens (identifiers and commas)
MaxSubLen == 3
\* run-time axis sizes range over 0..MaxSize
MaxSize == 2

\* the array of the aggregation test: 9 x 10, a[i, j] = i * (j + 1)
TestRows == 9
TestColumns == 10

\* highest rank of the shapes the explored builder chains reach
MaxShapeRank == 4
\* most calls of update made on one tensor
MaxUpdates == 1
\* most calls of append_vec, append_array and fill_during made on one
\* TensorPreparation
MaxAppends == 2
\* Tensor8Shape is the last shape type: it can be extended no further
HighestRank == 8
\* width of usize on the 64 bit targets
UsizeBits == 64

\* most calls of generate_thumbprint made in one run
MaxCalls == 66
\* COUNTER starts at 0xF091
InitialCounter == 61585
\* the factor 0x9CA3 and the bits 0x34E1 of generate_thumbprint
Factor == 40099
ForcedBits == 13537

(***************************************************************************)
(* proc_macro2::TokenTree.  Spans are diagnostics only and are left out.   *)
(***************************************************************************)
Ident(n) == [kind |-> "Ident", name |-> n]
Punct(c) == [kind |-> "Punct", char |-> c]
Literal == [kind |-> "Literal"]
Group(d, s) == [kind |-> "Group", delimiter |-> d, stream |-> s]

Delimiters == {"Parenthesis", "Bracket", "Brace", "None"}
TensorNames == {"a", "b"}
IndexNames == {"i", "j"}

(***************************************************************************)
(* Inputs, part 1: every token tree of at most MaxTokens tokens over a     *)
(* small alphabet.                                                          *)
(***************************************************************************)
Leaves ==
    {Ident("a"), Ident("i"), Literal} \cup {Punct(c) : c \in {"$", ";", ",", "+"}}

\* acc[k + 1] is the set of the streams of exactly k tokens; the streams of
\* Len(acc) tokens are a first token of k tokens (a leaf, or a group around a
\* stream of k - 1 tokens) followed by a stream of the remaining tokens
StreamsOfNextSize(acc) ==
    LET n == Len(acc)
    IN  UNION {
            {<<t>> \o s :
                t \in (IF k = 1 THEN Leaves ELSE {})
                        \cup {Group(d, g) : d \in Delimiters, g \in acc[k]},
                s \in acc[n - k + 1]} :
            k \in 1..n}

RECURSIVE StreamsBySize(_, _)
StreamsBySize(acc, n) ==
    IF Len(acc) > n THEN acc
    ELSE StreamsBySize(Append(acc, StreamsOfNextSize(acc)), n)

StreamsOfSize == StreamsBySize(<<{<<>>}>>, MaxTokens - 1)

TokensOfSize(k) ==
    (IF k = 1 THEN Leaves ELSE {})
        \cup {Group(d, g) : d \in Delimiters, g \in StreamsOfSize[k]}

\* x is a stream of at most MaxTokens tokens
SmallTree(x) ==
    \/ x = <<>>
    \/ \E n \in 1..MaxTokens : \E k \in 1..n :
          \E t \in TokensOfSize(k), s \in StreamsOfSize[n - k + 1] : x = <<t>> \o s

(***************************************************************************)
(* Inputs, part 2: programs of the shapes the documentation and the tests  *)
(* use, with every choice of declared indexes, arrays and subscripts.      *)
(***************************************************************************)
SeqsUpTo(S, n) == UNION {[1..k -> S] : k \in 0..n}

Idents(names) == [k \in 1..Len(names) |-> Ident(names[k])]

\* identifier lists in front of a $
Decls == {Idents(d) : d \in SeqsUpTo(IndexNames, MaxDecl)}

\* x1 , x2 , ... , xn
CommaList(names) ==
    [k \in 1..(2 * Len(names) - 1) |->
        IF k % 2 = 1 THEN Ident(names[(k + 1) \div 2]) ELSE Punct(",")]

WellFormedSubs ==
    {CommaList(s) : s \in SeqsUpTo(IndexNames, (MaxSubLen + 1) \div 2) \ {<<>>}}

AnySubs == SeqsUpTo({Ident(x) : x \in IndexNames} \cup {Punct(",")}, MaxSubLen)

Access(t, sub) == <<Ident(t), Group("Bracket", sub)>>

Binder(decl, body) == decl \o <<Punct("$")>> \o body

Paren(s) == <<Group("Parenthesis", s)>>

\* D $ a[...]  with any subscript list, bare and behind a token
SingleAccessPrograms ==
    {pre \o Binder(d, Access("a", s)) :
        pre \in {<<>>, <<Punct("+")>>}, d \in Decls, s \in AnySubs}

\* D $ a[...] + t[...]
TwoAccessPrograms ==
    {Binder(d, Access("a", s1) \o <<Punct("+")>> \o Access(t, s2)) :
        d \in Decls, s1 \in WellFormedSubs, t \in TensorNames, s2 \in WellFormedSubs}

SingleDecls == {<<Ident(x)>> : x \in IndexNames}

\* x $ (y $ a[...] + b[...])  and  x $ y $ a[...]
NestedPrograms ==
    {Binder(d1, Paren(Binder(d2, Access("a", s1) \o <<Punct("+")>> \o Access("b", s2)))) :
        d1 \in SingleDecls, d2 \in SingleDecls,
        s1 \in WellFormedSubs, s2 \in WellFormedSubs}
    \cup {Binder(d1, Binder(d2, Access("a", s))) :
        d1 \in SingleDecls, d2 \in SingleDecls, s \in WellFormedSubs}

\* (x $ a[...]) + t[...]  and  (x $ a[...]) + (y $ b[...])
SiblingPrograms ==
    {Paren(Binder(d, Access("a", s1))) \o <<Punct("+")>> \o Access(t, s2) :
        d \in SingleDecls, s1 \in WellFormedSubs,
        t \in TensorNames, s2 \in WellFormedSubs}
    \cup {Paren(Binder(d1, Access("a", s1))) \o <<Punct("+")>>
              \o Paren(Binder(d2, Access("b", s2))) :
        d1 \in SingleDecls, d2 \in SingleDecls,
        s1 \in WellFormedSubs, s2 \in WellFormedSubs}

\* sum(x $ min(y $ a[...])), and a binder inside a group without delimiters
AggregationPrograms ==
    {<<Ident("sum")>> \o Paren(Binder(d1, <<Ident("min")>> \o Paren(Binder(d2, Access("a", s))))) :
        d1 \in SingleDecls, d2 \in SingleDecls, s \in WellFormedSubs}
    \cup {<<Group("None", Binder(d, Access("a", s)))>> :
        d \in Decls, s \in WellFormedSubs}

ForbiddenTokens == {Punct(";"), Group("Brace", <<>>)}

InsertAt(s, k, t) == SubSeq(s, 1, k) \o <<t>> \o SubSeq(s, k + 1, Len(s))

Insertions(s) == {InsertAt(s, k, f) : k \in 0..Len(s), f \in ForbiddenTokens}

\* D $ a[...] with a `;` or a brace group put anywhere: at the top level, in
\* the subscript list, or in a parenthesised body
ForbiddenPrograms ==
    UNION {Insertions(Binder(d, Access("a", s)))
               \cup {Binder(d, Access("a", bad)) : bad \in Insertions(s)}
               \cup {Binder(d, Paren(bad)) : bad \in Insertions(Access("a", s))} :
           d \in Decls, s \in WellFormedSubs}

Programs ==
    SingleAccessPrograms \cup TwoAccessPrograms \cup NestedPrograms
        \cup SiblingPrograms \cup AggregationPrograms \cup ForbiddenPrograms

(***************************************************************************)
(* types.rs: the scope tree.                                               *)
(***************************************************************************)
Tree(token) == [alt |-> "Tree", token |-> token]
Func(inverted_indexes, sequence) ==
    [alt |-> "Func", inverted_indexes |-> inverted_indexes, sequence |-> sequence]
SeqAlt(sequence) == [alt |-> "Seq", sequence |-> sequence]
TensorAccess(tensor_name, indexes) ==
    [alt |-> "TensorAccess", tensor_name |-> tensor_name, indexes |-> indexes]

RicciSequence(use_parens, content) == [use_parens |-> use_parens, content |-> content]
initial == RicciSequence(FALSE, <<>>)
with_parens == RicciSequence(TRUE, <<>>)
naked == RicciSequence(FALSE, <<>>)

push_token(sequence, token) ==
    [sequence EXCEPT !.content = Append(@, Tree(token))]

IsIdentTree(alt) == alt.alt = "Tree" /\ alt.token.kind = "Ident"

Last(s) == s[Len(s)]
Front(s) == SubSeq(s, 1, Len(s) - 1)
Reverse(s) == [k \in 1..Len(s) |-> s[Len(s) + 1 - k]]

\* pops the trailing identifiers; the last one popped first
RECURSIVE extract_previous_identifiers(_)
\* mutant: only the identifier right before the marker is popped
extract_last_identifier(content) ==
    IF content # <<>> /\ IsIdentTree(Last(content))
    THEN [inverted_identifiers |-> <<Last(content).token.name>>,
          content |-> Front(content)]
    ELSE [inverted_identifiers |-> <<>>, content |-> content]

extract_previous_identifiers(content) ==
    IF content # <<>> /\ IsIdentTree(Last(content))
    THEN LET rest == extract_previous_identifiers(Front(content))
         IN  [inverted_identifiers |-> <<Last(content).token.name>> \o rest.inverted_identifiers,
              content |-> rest.content]
    ELSE [inverted_identifiers |-> <<>>, content |-> content]

(***************************************************************************)
(* types.rs: IndexUse and TensorUse.  A HashMap is a function whose domain *)
(* is its key set.                                                          *)
(***************************************************************************)
EmptyMap == [k \in {} |-> 0]
Contains(s, x) == \E k \in 1..Len(s) : s[k] = x

RicciPosition(tensor_name, position, index_name) ==
    [tensor_name |-> tensor_name, position |-> position, index_name |-> index_name]

IndexUse_new == [indexes_in_order |-> <<>>, correspondence |-> EmptyMap]

\* mutant: the name is appended without looking for it first
declare_new_unchecked(iu, index_name) ==
    [added |-> TRUE,
     index_use |-> [iu EXCEPT !.indexes_in_order = Append(@, index_name)]]

declare_new(iu, index_name) ==
    IF Contains(iu.indexes_in_order, index_name)
    THEN [added |-> FALSE, index_use |-> iu]
    ELSE [added |-> TRUE,
          index_use |-> [iu EXCEPT !.indexes_in_order = Append(@, index_name)]]

\* mutant: the axis positions are counted from 1
push_one_based(iu, index_name, tensor_name, position) ==
    LET p == RicciPosition(tensor_name, position + 1, index_name)
    IN  IF index_name \in DOMAIN iu.correspondence
        THEN [added |-> TRUE,
              index_use |-> [iu EXCEPT !.correspondence[index_name] = Append(@, p)]]
        ELSE IF Contains(iu.indexes_in_order, index_name)
             THEN [added |-> TRUE,
                   index_use |-> [iu EXCEPT !.correspondence =
                                      @ @@ (index_name :> <<p>>)]]
             ELSE [added |-> FALSE, index_use |-> iu]

push(iu, index_name, tensor_name, position) ==
    LET p == RicciPosition(tensor_name, position, index_name)
    IN  IF index_name \in DOMAIN iu.correspondence
        THEN [added |-> TRUE,
              index_use |-> [iu EXCEPT !.correspondence[index_name] = Append(@, p)]]
        ELSE IF Contains(iu.indexes_in_order, index_name)
             THEN [added |-> TRUE,
                   index_use |-> [iu EXCEPT !.correspondence =
                                      @ @@ (index_name :> <<p>>)]]
             ELSE [added |-> FALSE, index_use |-> iu]

TensorUse_new == EmptyMap

\* mutant: the last access wins
update_order_overwriting(tu, tensor_name, order) ==
    [consistent |-> TRUE,
     tensor_use |-> [t \in DOMAIN tu \cup {tensor_name} |->
                        IF t = tensor_name THEN order ELSE tu[t]]]

update_order(tu, tensor_name, order) ==
    IF tensor_name \in DOMAIN tu
    THEN [consistent |-> tu[tensor_name] = order, tensor_use |-> tu]
    ELSE [consistent |-> TRUE, tensor_use |-> tu @@ (tensor_name :> order)]

(***************************************************************************)
(* parsing.rs                                                              *)
(***************************************************************************)
ErrSemicolon == "Character ';' is forbidden"
ErrReused == "Illegal reused index name"
ErrContent == "Invalid content in indexes"
ErrBrace == "Characters '{' and '}' are forbidden"
ErrUndeclared == "Undeclared index"
ErrInconsistent == "Inconsistent number of indexes."
ErrTensorName == "Invalid tensor name: an identifier was expected"

\* the for index_name in direct_indexes loop of parse_punct: stops at the
\* first name that is already declared
RECURSIVE declare_all(_, _)
\* mutant: a name is refused only when the same list already holds it
declare_all_per_binder(iu, direct_indexes) ==
    IF \E p, q \in 1..Len(direct_indexes) :
           p # q /\ direct_indexes[p] = direct_indexes[q]
    THEN [ok |-> FALSE, index_use |-> iu]
    ELSE [ok |-> TRUE,
          index_use |-> [iu EXCEPT !.indexes_in_order =
              @ \o SelectSeq(direct_indexes,
                             LAMBDA n : ~Contains(iu.indexes_in_order, n))]]

declare_all(iu, direct_indexes) ==
    IF direct_indexes = <<>> THEN [ok |-> TRUE, index_use |-> iu]
    ELSE LET r == declare_new(iu, Head(direct_indexes))
         IN  IF r.added THEN declare_all(r.index_use, Tail(direct_indexes))
             ELSE [ok |-> FALSE, index_use |-> r.index_use]

\* Ok(indexes) or Err: identifiers are collected, commas are skipped
RECURSIVE parse_tensor_indexing(_)
\* mutant: every punctuation is skipped, not only the comma
parse_tensor_indexing_any_punct(stream) ==
    IF \E k \in 1..Len(stream) : stream[k].kind \notin {"Ident", "Punct"}
    THEN [ok |-> FALSE, indexes |-> <<>>]
    ELSE LET ids == SelectSeq(stream, LAMBDA t : t.kind = "Ident")
         IN  [ok |-> TRUE, indexes |-> [k \in 1..Len(ids) |-> ids[k].name]]

parse_tensor_indexing(stream) ==
    IF stream = <<>> THEN [ok |-> TRUE, indexes |-> <<>>]
    ELSE LET token == Head(stream)
             rest == parse_tensor_indexing(Tail(stream))
         IN  IF token.kind = "Ident"
             THEN IF rest.ok THEN [ok |-> TRUE, indexes |-> <<token.name>> \o rest.indexes]
                  ELSE rest
             ELSE IF token.kind = "Punct" /\ token.char = ","
                  THEN rest
                  ELSE [ok |-> FALSE, indexes |-> <<>>]

\* the for (position, index_name) in indexes.iter().enumerate() loop of
\* parse_group, which stops at the first undeclared index; positions are 0-based
RECURSIVE push_all(_, _, _, _)
\* mutant: an undeclared index is passed over and the loop goes on
RECURSIVE push_all_recovering(_, _, _, _)
push_all_recovering(iu, indexes, tensor_name, position) ==
    IF position >= Len(indexes) THEN [ok |-> TRUE, index_use |-> iu]
    ELSE LET r == push(iu, indexes[position + 1], tensor_name, position)
         IN  push_all_recovering(r.index_use, indexes, tensor_name, position + 1)

push_all(iu, indexes, tensor_name, position) ==
    IF position >= Len(indexes) THEN [ok |-> TRUE, index_use |-> iu]
    ELSE LET r == push(iu, indexes[position + 1], tensor_name, position)
         IN  IF r.added THEN push_all(r.index_use, indexes, tensor_name, position + 1)
             ELSE [ok |-> FALSE, index_use |-> r.index_use]

VARIABLES
    input,       \* the token stream handed to parse
    pc,          \* where the compilation, then the generated code, is
    stack,       \* the active calls of parse_sequence, innermost last
    index_use,   \* IndexUse
    tensor_use,  \* TensorUse
    error,       \* the message of the compile_error! returned, "" if none
    stream,      \* the stream of sequentialize: the header, then the body
    output,      \* the token stream sequentialize returns
    shapes,      \* run time: the shape of every array the code names
    dims,        \* run time: the <index>_dimension bindings made so far
    next_stmt,   \* run time: the statement of the block executed next
    failure,     \* run time: the panic message, "" if none
    result,      \* run time: what the body of the block evaluates to
    compilation, \* 1 for the first compilation of input, 2 for the second
    first_outcome, \* how the first compilation of input ended
    built_shape, \* library: the shape a chain of builder calls has reached
    built_tensor, \* library: the tensor built from built_shape
    calls,       \* library: the calls the last operation made to its closure
    read,        \* library: what the last indexing returned
    panic_message, \* library: the message of the panic, "" if none
    preparation, \* library: the TensorPreparation made from built_shape
    COUNTER,     \* dimensions: the static AtomicU16 of generate_thumbprint
    callers,     \* dimensions: where each thread is in generate_thumbprint
    thumbprints  \* dimensions: the values generate_thumbprint returned so far

vars == <<input, pc, stack, index_use, tensor_use, error, stream, output,
          shapes, dims, next_stmt, failure, result, compilation, first_outcome,
          built_shape, built_tensor, calls, read, panic_message, preparation,
          COUNTER, callers, thumbprints>>

compile_vars == <<input, pc, stack, index_use, tensor_use, error, stream, output,
                  shapes, dims, next_stmt, failure, result, compilation,
                  first_outcome>>
lib_vars == <<built_shape, built_tensor, calls, read, panic_message, preparation>>

parse_vars == <<stack, index_use, tensor_use, error>>
gen_vars == <<stream, output>>
run_vars == <<shapes, dims, next_stmt, failure, result>>
\* what no step of a compilation or of the generated code touches
thumb_vars == <<COUNTER, callers, thumbprints>>
\* the threads that create dynamic dimensions, and a thread that is not
\* inside generate_thumbprint
Threads == {"first", "second"}
Idle == [pc |-> "idle", prev |-> 0]
fixed_vars == <<input, compilation, first_outcome, lib_vars, thumb_vars>>

\* a call of parse_sequence: the scope it fills, the tokens its iterator still
\* holds, who called it, and the identifiers a $ took for it
Frame(caller, sequence, tokens, inverted_indexes) ==
    [caller |-> caller, sequence |-> sequence, tokens |-> tokens,
     inverted_indexes |-> inverted_indexes]

Top == stack[Len(stack)]
SetTop(frame) == [stack EXCEPT ![Len(stack)] = frame]

Init ==
    /\ SmallTree(input) \/ input \in Programs
    /\ pc = "parse_sequence"
    /\ stack = <<Frame("parse", initial, input, <<>>)>>
    /\ index_use = IndexUse_new
    /\ tensor_use = TensorUse_new
    /\ error = ""
    /\ stream = <<>>
    /\ output = <<>>
    /\ shapes = EmptyMap
    /\ dims = EmptyMap
    /\ next_stmt = 0
    /\ failure = ""
    /\ result = <<>>
    /\ compilation = 1
    /\ first_outcome = [pc |-> "", error |-> "", output |-> <<>>]
    /\ built_shape = [dims |-> <<>>]
    /\ built_tensor = [rank |-> 0, d |-> <<>>, data |-> <<>>, updates |-> 0]
    /\ calls = <<>>
    /\ read = <<>>
    /\ panic_message = ""
    /\ preparation = [expected_size |-> 0, shape |-> <<>>, data |-> <<>>, appends |-> 0, offered |-> 0]
    /\ COUNTER = InitialCounter
    /\ callers = [t \in Threads |-> Idle]
    /\ thumbprints = <<>>

Parsing == pc = "parse_sequence" /\ Top.tokens # <<>>
Token == Head(Top.tokens)
Advanced == [Top EXCEPT !.tokens = Tail(@)]

Fail(message) ==
    /\ pc' = "Err"
    /\ error' = message

\* parse_sequence, _ => sequence.push_token(token)
ParseOther ==
    /\ Parsing
    /\ Token.kind \in {"Ident", "Literal"}
    /\ stack' = SetTop([Advanced EXCEPT !.sequence = push_token(@, Token)])
    /\ UNCHANGED <<fixed_vars, pc, index_use, tensor_use, error, gen_vars, run_vars>>

\* parse_punct, c == ';'
ParsePunctSemicolon ==
    /\ Parsing
    /\ Token.kind = "Punct" /\ Token.char = ";"
    /\ Fail(ErrSemicolon)
    /\ stack' = SetTop(Advanced)
    /\ UNCHANGED <<fixed_vars, index_use, tensor_use, gen_vars, run_vars>>

\* parse_punct, c == '$': the identifiers are declared and the rest of the
\* iterator is parsed by a nested call of parse_sequence
ParsePunctDollar ==
    /\ Parsing
    /\ Token.kind = "Punct" /\ Token.char = "$"
    /\ LET ex == extract_previous_identifiers(Top.sequence.content)
           inverted_indexes == ex.inverted_identifiers
           direct_indexes == Reverse(inverted_indexes)
           decl == declare_all(index_use, direct_indexes)
           caller == [Advanced EXCEPT !.sequence.content = ex.content]
       IN  /\ index_use' = decl.index_use
           /\ IF decl.ok
              THEN /\ stack' = Append(SetTop(caller),
                                      Frame("parse_punct", naked, caller.tokens,
                                            inverted_indexes))
                   /\ UNCHANGED <<pc, error>>
              ELSE /\ stack' = SetTop(caller)
                   /\ Fail(ErrReused)
    /\ UNCHANGED <<fixed_vars, tensor_use, gen_vars, run_vars>>

\* parse_punct, any other character
ParsePunctOther ==
    /\ Parsing
    /\ Token.kind = "Punct" /\ Token.char \notin {";", "$"}
    /\ stack' = SetTop([Advanced EXCEPT !.sequence = push_token(@, Token)])
    /\ UNCHANGED <<fixed_vars, pc, index_use, tensor_use, error, gen_vars, run_vars>>

\* parse_group, Delimiter::Brace
ParseGroupBrace ==
    /\ Parsing
    /\ Token.kind = "Group" /\ Token.delimiter = "Brace"
    /\ Fail(ErrBrace)
    /\ stack' = SetTop(Advanced)
    /\ UNCHANGED <<fixed_vars, index_use, tensor_use, gen_vars, run_vars>>

\* mutant: the identifier is not popped
push_access_after_name(content, tensor_name, indexes) ==
    Append(content, TensorAccess(tensor_name, indexes))

\* sequence.content.pop(); sequence.content.push(TensorAccess { .. })
replace_name_by_access(content, tensor_name, indexes) ==
    Append(Front(content), TensorAccess(tensor_name, indexes))

\* parse_group, Delimiter::Bracket
ParseGroupBracket ==
    /\ Parsing
    /\ Token.kind = "Group" /\ Token.delimiter = "Bracket"
    /\ LET content == Top.sequence.content
       IN  IF content # <<>> /\ IsIdentTree(Last(content))
           THEN LET tensor_name == Last(content).token.name
                    parsed == parse_tensor_indexing(Token.stream)
                    pushed == push_all(index_use, parsed.indexes, tensor_name, 0)
                    updated == update_order(tensor_use, tensor_name, Len(parsed.indexes))
                IN  IF ~parsed.ok
                    THEN /\ Fail(ErrContent)
                         /\ stack' = SetTop(Advanced)
                         /\ UNCHANGED <<index_use, tensor_use>>
                    ELSE IF ~pushed.ok
                    THEN /\ Fail(ErrUndeclared)
                         /\ stack' = SetTop(Advanced)
                         /\ index_use' = pushed.index_use
                         /\ UNCHANGED tensor_use
                    ELSE IF ~updated.consistent
                    THEN /\ Fail(ErrInconsistent)
                         /\ stack' = SetTop(Advanced)
                         /\ index_use' = pushed.index_use
                         /\ tensor_use' = updated.tensor_use
                    ELSE /\ stack' = SetTop([Advanced EXCEPT !.sequence.content =
                                replace_name_by_access(content, tensor_name,
                                                       parsed.indexes)])
                         /\ index_use' = pushed.index_use
                         /\ tensor_use' = updated.tensor_use
                         /\ UNCHANGED <<pc, error>>
           ELSE /\ Fail(ErrTensorName)
                /\ stack' = SetTop(Advanced)
                /\ UNCHANGED <<index_use, tensor_use>>
    /\ UNCHANGED <<fixed_vars, gen_vars, run_vars>>

\* parse_group, Delimiter::Parenthesis and Delimiter::None: the own
\* stream is parsed by a nested call of parse_sequence
ParseGroupNested ==
    /\ Parsing
    /\ Token.kind = "Group" /\ Token.delimiter \in {"Parenthesis", "None"}
    /\ stack' = Append(SetTop(Advanced),
                       Frame("parse_group",
                             IF Token.delimiter = "Parenthesis" THEN with_parens ELSE naked,
                             Token.stream, <<>>))
    /\ UNCHANGED <<fixed_vars, pc, index_use, tensor_use, error, gen_vars, run_vars>>

\* mutant: the body of a binder was parsed from a copy of the iterator, so
\* the caller still holds the tokens that follow the marker
ParseSequenceReturn_copied_iterator ==
    /\ pc = "parse_sequence"
    /\ Top.tokens = <<>>
    /\ Len(stack) > 1
    /\ LET callee == Top
           caller == stack[Len(stack) - 1]
           pushed ==
               IF callee.caller = "parse_punct"
               THEN [caller EXCEPT
                        !.sequence.content =
                            Append(@, Func(callee.inverted_indexes, callee.sequence))]
               ELSE [caller EXCEPT
                        !.sequence.content = Append(@, SeqAlt(callee.sequence))]
       IN  stack' = Append(SubSeq(stack, 1, Len(stack) - 2), pushed)
    /\ UNCHANGED <<fixed_vars, pc, index_use, tensor_use, error, gen_vars, run_vars>>

\* parse_sequence returns Ok(()) to parse_group or parse_punct once its
\* iterator is exhausted; the caller pushes the finished scope
ParseSequenceReturn ==
    /\ pc = "parse_sequence"
    /\ Top.tokens = <<>>
    /\ Len(stack) > 1
    /\ LET callee == Top
           caller == stack[Len(stack) - 1]
           pushed ==
               IF callee.caller = "parse_punct"
               THEN [caller EXCEPT
                        !.sequence.content =
                            Append(@, Func(callee.inverted_indexes, callee.sequence)),
                        !.tokens = callee.tokens]
               ELSE [caller EXCEPT
                        !.sequence.content = Append(@, SeqAlt(callee.sequence))]
       IN  stack' = Append(SubSeq(stack, 1, Len(stack) - 2), pushed)
    /\ UNCHANGED <<fixed_vars, pc, index_use, tensor_use, error, gen_vars, run_vars>>

\* parse returns Ok((sequence, index_use, tensor_use))
ParseReturn ==
    /\ pc = "parse_sequence"
    /\ Top.tokens = <<>>
    /\ Len(stack) = 1
    /\ pc' = "Ok"
    /\ UNCHANGED <<fixed_vars, parse_vars, gen_vars, run_vars>>

(***************************************************************************)
(* sequentialization.rs.  The generated code is kept as the tokens the     *)
(* quote! templates produce: input tokens pass through, and each template  *)
(* is one node that records what was spliced into it.                      *)
(***************************************************************************)
\* format_ident!("{}_dimension", index)
dimension_name(index) == index \o "_dimension"

\* (* unsafe{ tensor_name.uget(index) })  or  ...uget((i, j, ))
uget(tensor_name, indexes) ==
    [kind |-> "uget", tensor_name |-> tensor_name, indexes |-> indexes,
     tuple |-> Len(indexes) # 1]

\* the mappings of sequentialize_tensor_func after its first k rounds:
\* (0usize..dim).map(move |index| mappings), flat_map from the second round on
RECURSIVE mappings(_, _)
\* mutant: the rounds take the indexes in declaration order, so that the
\* first declared index ends up innermost
RECURSIVE mappings_first_innermost(_, _)
mappings_first_innermost(inverted_indexes, k) ==
    IF k = 0 THEN [kind |-> "tuple", indexes |-> Reverse(inverted_indexes)]
    ELSE [kind |-> "range",
          dimension |-> dimension_name(inverted_indexes[Len(inverted_indexes) - k + 1]),
          method |-> IF k - 1 = 0 THEN "map" ELSE "flat_map",
          index |-> inverted_indexes[Len(inverted_indexes) - k + 1],
          mappings |-> mappings_first_innermost(inverted_indexes, k - 1)]

mappings(inverted_indexes, k) ==
    IF k = 0 THEN [kind |-> "tuple", indexes |-> Reverse(inverted_indexes)]
    ELSE [kind |-> "range",
          dimension |-> dimension_name(inverted_indexes[k]),
          method |-> IF k - 1 = 0 THEN "map" ELSE "flat_map",
          index |-> inverted_indexes[k],
          mappings |-> mappings(inverted_indexes, k - 1)]

RECURSIVE sequentialize_sequence(_), sequentialize_content(_), sequentialize_tensor_func(_)
\* mutant: a binder met in a body is lowered as an array construction
sequentialize_tensor_func_as_array(func) ==
    <<[kind |-> "from_shape_fn",
       order |-> Len(func.inverted_indexes),
       dimensions |-> [k \in 1..Len(func.inverted_indexes) |->
                           dimension_name(Reverse(func.inverted_indexes)[k])],
       direct_indexes |-> Reverse(func.inverted_indexes),
       substream |-> sequentialize_sequence(func.sequence)]>>

\* mappings.map(|indexes_tuple| { content_stream })
sequentialize_tensor_func(func) ==
    <<[kind |-> "lazy_sequence",
       mappings |-> mappings(func.inverted_indexes, Len(func.inverted_indexes)),
       indexes_tuple |-> Reverse(func.inverted_indexes),
       content_stream |-> sequentialize_sequence(func.sequence)]>>

\* the for alt in sequence.content loop of sequentialize_sequence
sequentialize_content(content) ==
    IF content = <<>> THEN <<>>
    ELSE LET alt == Head(content)
             first ==
                 CASE alt.alt = "Func" -> sequentialize_tensor_func(alt)
                   [] alt.alt = "Tree" -> <<alt.token>>
                   [] alt.alt = "Seq" -> sequentialize_sequence(alt.sequence)
                   [] alt.alt = "TensorAccess" -> <<uget(alt.tensor_name, alt.indexes)>>
         IN  first \o sequentialize_content(Tail(content))

\* mutant: the parentheses of a scope are not put back
sequentialize_sequence_without_parens(sequence) ==
    sequentialize_content(sequence.content)

sequentialize_sequence(sequence) ==
    IF sequence.use_parens
    THEN <<Group("Parenthesis", sequentialize_content(sequence.content))>>
    ELSE sequentialize_content(sequence.content)

\* TensorUse::get_order: the rank, or the panic of expect
PanicMissing == "Missing tensor name"
PanicUnwrap == "called Option::unwrap() on a None value"

get_order(tu, tensor_name) ==
    IF tensor_name \in DOMAIN tu THEN [panic |-> "", order |-> tu[tensor_name]]
    ELSE [panic |-> PanicMissing, order |-> 0]

\* mutant: the component is always projected, also for a rank of 1
create_dimension_computation_always_projected(tu, ricci_position) ==
    [panic |-> IF ricci_position.tensor_name \in DOMAIN tu THEN "" ELSE "Missing tensor name",
     tokens |-> [kind |-> "dim",
                 tensor_name |-> ricci_position.tensor_name,
                 component |-> <<ricci_position.position>>]]

\* ::ndarray::ArrayBase::dim(&tensor_name)  or  ...dim(&tensor_name).pos
create_dimension_computation_token_stream(tu, ricci_position) ==
    LET got == get_order(tu, ricci_position.tensor_name)
    IN  [panic |-> got.panic,
         tokens |-> [kind |-> "dim",
                     tensor_name |-> ricci_position.tensor_name,
                     component |-> IF got.order = 1 THEN <<>>
                                   ELSE <<ricci_position.position>>]]

\* the `for ricci_position in positions.into_iter().skip(1)` loop of
\* sequentialize_header: one assertion for each position but the first
RECURSIVE equality_assertions(_, _, _, _)
\* mutant: the other positions are not looked at
equality_assertions_left_out(tu, dimension_computation, positions, k) ==
    [panic |-> "", output |-> <<>>]

equality_assertions(tu, dimension_computation, positions, k) ==
    IF k > Len(positions) THEN [panic |-> "", output |-> <<>>]
    ELSE LET other == create_dimension_computation_token_stream(tu, positions[k])
             rest == equality_assertions(tu, dimension_computation, positions, k + 1)
         IN  IF other.panic # "" THEN [panic |-> other.panic, output |-> <<>>]
             ELSE IF rest.panic # "" THEN rest
             ELSE [panic |-> "",
                   output |-> <<[kind |-> "assert",
                                 first |-> dimension_computation,
                                 second |-> other.tokens]>> \o rest.output]

\* the orders in which a HashMap keyed by index names may iterate its keys
HashOrders ==
    {order \in [1..Cardinality(IndexNames) -> IndexNames] :
        \A k, n \in 1..Cardinality(IndexNames) : order[k] = order[n] => k = n}

\* mutant: the items come in the iteration order of the correspondence map
into_iter_of_correspondence(iu, hash_order) ==
    LET names == SelectSeq(hash_order, LAMBDA name : name \in DOMAIN iu.correspondence)
    IN  [k \in 1..Len(names) |->
            [name |-> names[k], unwrapped |-> TRUE,
             positions |-> iu.correspondence[names[k]]]]

\* IndexUse::into_iter: one item per index of indexes_in_order, in that
\* order, with the positions removed from the correspondence map (unwrap
\* panics when there are none); the iteration order of the map plays no part
into_iter(iu, hash_order) ==
    [k \in 1..Len(iu.indexes_in_order) |->
        LET name == iu.indexes_in_order[k]
        IN  [name |-> name,
             unwrapped |-> name \in DOMAIN iu.correspondence,
             positions |-> IF name \in DOMAIN iu.correspondence
                           THEN iu.correspondence[name] ELSE <<>>]]

\* sequentialize_header: for each item of index_use.into_iter(), the binding
\* from its first position, then its assertions
RECURSIVE sequentialize_header(_, _, _)
sequentialize_header(items, tu, k) ==
    IF k > Len(items) THEN [panic |-> "", output |-> <<>>]
    ELSE IF ~items[k].unwrapped
         THEN [panic |-> PanicUnwrap, output |-> <<>>]
         ELSE LET positions == items[k].positions
                  dimension_computation ==
                      create_dimension_computation_token_stream(tu, positions[1])
                  assertions ==
                      equality_assertions(tu, dimension_computation.tokens,
                                          positions, 2)
                  rest == sequentialize_header(items, tu, k + 1)
              IN  IF dimension_computation.panic # ""
                  THEN [panic |-> dimension_computation.panic, output |-> <<>>]
                  ELSE IF assertions.panic # "" THEN assertions
                  ELSE IF rest.panic # "" THEN rest
                  ELSE [panic |-> "",
                        output |-> <<[kind |-> "let",
                                      name |-> dimension_name(items[k].name),
                                      value |-> dimension_computation.tokens]>>
                                       \o assertions.output \o rest.output]

\* mutant: the binder is taken whether or not it declares an index
try_extract_func_unchecked(sequence) ==
    IF Len(sequence.content) = 1 /\ sequence.content[1].alt = "Func"
    THEN [ok |-> TRUE, func |-> sequence.content[1]]
    ELSE [ok |-> FALSE, sequence |-> sequence]

\* Ok(func) when the scope is exactly one binder with a non-empty index list,
\* Err(the body of the binder) when its list is empty, Err(sequence) otherwise
try_extract_func(sequence) ==
    IF Len(sequence.content) = 1 /\ sequence.content[1].alt = "Func"
    THEN LET func == sequence.content[1]
         IN  IF func.inverted_indexes = <<>>
             THEN [ok |-> FALSE, sequence |-> func.sequence]
             ELSE [ok |-> TRUE, func |-> func]
    ELSE [ok |-> FALSE, sequence |-> sequence]

\* mutant: the indexes are left in the inverted order of the binder
sequentialize_shape_creation_inverted(func) ==
    LET direct_indexes == func.inverted_indexes
    IN  <<[kind |-> "from_shape_fn",
           order |-> Len(direct_indexes),
           dimensions |-> [k \in 1..Len(direct_indexes) |->
                               dimension_name(direct_indexes[k])],
           direct_indexes |-> direct_indexes,
           substream |-> sequentialize_sequence(func.sequence)]>>

\* ::ndarray::Array::<_, Dim<[Ix; order]>>::from_shape_fn((dimensions, ),
\*     |(direct_indexes, )| { substream })
sequentialize_shape_creation(func) ==
    LET direct_indexes == Reverse(func.inverted_indexes)
    IN  <<[kind |-> "from_shape_fn",
           order |-> Len(direct_indexes),
           dimensions |-> [k \in 1..Len(direct_indexes) |->
                               dimension_name(direct_indexes[k])],
           direct_indexes |-> direct_indexes,
           substream |-> sequentialize_sequence(func.sequence)]>>

\* sequentialize, first statement: the header is built from the registries
\* that parse returned
SequentializeHeader ==
    /\ pc = "Ok"
    /\ \E hash_order \in HashOrders :
       LET header == sequentialize_header(into_iter(index_use, hash_order), tensor_use, 1)
       IN  IF header.panic # ""
           THEN /\ pc' = "panic"
                /\ error' = header.panic
                /\ UNCHANGED stream
           ELSE /\ pc' = "sequentialize_body"
                /\ stream' = header.output
                /\ UNCHANGED error
    /\ UNCHANGED <<fixed_vars, stack, index_use, tensor_use, output, run_vars>>

\* sequentialize_body, Ok(func), then the enclosing brace group
SequentializeShapeCreation ==
    /\ pc = "sequentialize_body"
    /\ LET extracted == try_extract_func(stack[1].sequence)
       IN  /\ extracted.ok
           /\ stream' = stream \o sequentialize_shape_creation(extracted.func)
    /\ output' = <<Group("Brace", stream')>>
    /\ pc' = "generated"
    /\ UNCHANGED <<fixed_vars, parse_vars, run_vars>>

\* mutant: the body is put in front of the header
SequentializeExpression_body_first ==
    /\ pc = "sequentialize_body"
    /\ LET extracted == try_extract_func(stack[1].sequence)
       IN  /\ ~extracted.ok
           /\ stream' = sequentialize_sequence(extracted.sequence) \o stream
    /\ output' = <<Group("Brace", stream')>>
    /\ pc' = "generated"
    /\ UNCHANGED <<fixed_vars, parse_vars, run_vars>>

\* sequentialize_body, Err(sequence), then the enclosing brace group
SequentializeExpression ==
    /\ pc = "sequentialize_body"
    /\ LET extracted == try_extract_func(stack[1].sequence)
       IN  /\ ~extracted.ok
           /\ stream' = stream \o sequentialize_sequence(extracted.sequence)
    /\ output' = <<Group("Brace", stream')>>
    /\ pc' = "generated"
    /\ UNCHANGED <<fixed_vars, parse_vars, run_vars>>

(***************************************************************************)
(* The generated block at run time: its header statements, in order.       *)
(***************************************************************************)
Sizes == 0..MaxSize

\* the arrays in scope: one shape per array, of the rank the code uses it with
Shapes(tu) == {sh \in [DOMAIN tu -> UNION {[1..tu[t] -> Sizes] : t \in DOMAIN tu}] :
                  \A t \in DOMAIN tu : Len(sh[t]) = tu[t]}

Block == output[1].stream
IsHeaderStatement(item) == item.kind \in {"let", "assert"}

\* ArrayBase::dim(&a) of a one-dimensional array is its length, of any other
\* array the tuple of its axis sizes
dim(sh, computation) ==
    IF computation.component = <<>> THEN sh[computation.tensor_name][1]
    ELSE sh[computation.tensor_name][computation.component[1] + 1]

\* the generated block is entered with some arrays in scope
Execute ==
    /\ pc = "generated"
    /\ shapes' \in Shapes(tensor_use)
    /\ dims' = EmptyMap
    /\ next_stmt' = 1
    /\ pc' = "header"
    /\ UNCHANGED <<fixed_vars, parse_vars, gen_vars, failure, result>>

\* let <index>_dimension: usize = <dimension computation>;
ExecuteLet ==
    /\ pc = "header"
    /\ next_stmt <= Len(Block)
    /\ Block[next_stmt].kind = "let"
    /\ dims' = dims @@ (Block[next_stmt].name :> dim(shapes, Block[next_stmt].value))
    /\ next_stmt' = next_stmt + 1
    /\ UNCHANGED <<fixed_vars, pc, parse_vars, gen_vars, shapes, failure, result>>

\* { let first = ..; let second = ..; if first != second { panic!(..) } }
ExecuteAssert ==
    /\ pc = "header"
    /\ next_stmt <= Len(Block)
    /\ Block[next_stmt].kind = "assert"
    /\ LET first == dim(shapes, Block[next_stmt].first)
           second == dim(shapes, Block[next_stmt].second)
       IN  IF first # second
           THEN /\ pc' = "panicked"
                /\ failure' = "Non matching dimensions"
                /\ UNCHANGED next_stmt
           ELSE /\ next_stmt' = next_stmt + 1
                /\ UNCHANGED <<pc, failure>>
    /\ UNCHANGED <<fixed_vars, parse_vars, gen_vars, shapes, dims, result>>

\* the header is over: the next token of the block belongs to the body
ExecuteBody ==
    /\ pc = "header"
    /\ IF next_stmt <= Len(Block) THEN ~IsHeaderStatement(Block[next_stmt]) ELSE TRUE
    /\ pc' = "body"
    /\ UNCHANGED <<fixed_vars, parse_vars, gen_vars, run_vars>>

\* 0usize..dimension
range(dimension) == [k \in 1..dimension |-> k - 1]

\* a name is a binding of the block, or else a name of the code around it
lookup(env, name) == IF name \in DOMAIN env THEN env[name] ELSE name

\* move |index| .. and |(i, j, )| ..: the parameters of a closure are bound to
\* the components of its argument and hide the bindings of the same name
bind(env, parameters, tuple) ==
    LET names == {parameters[k] : k \in 1..Len(parameters)}
    IN  [name \in DOMAIN env \cup names |->
            IF name \in names
            THEN tuple[CHOOSE k \in 1..Len(parameters) : parameters[k] = name]
            ELSE env[name]]

RECURSIVE flatten(_)
flatten(sequences) ==
    IF sequences = <<>> THEN <<>> ELSE Head(sequences) \o flatten(Tail(sequences))

\* the items of (0usize..dim).map(move |index| mappings), flattened when the
\* method is flat_map; the innermost mappings is the tuple of the indexes
RECURSIVE iterate(_, _)
iterate(m, env) ==
    IF m.kind = "tuple"
    THEN [k \in 1..Len(m.indexes) |-> lookup(env, m.indexes[k])]
    ELSE LET r == range(lookup(env, m.dimension))
             inner == [k \in 1..Len(r) |->
                          iterate(m.mappings, bind(env, <<m.index>>, <<r[k]>>))]
         IN  IF m.method = "map" THEN inner ELSE flatten(inner)

\* the multi-indexes from_shape_fn calls its closure with, in call order
RECURSIVE indices(_)
indices(shape) ==
    IF shape = <<>> THEN << <<>> >>
    ELSE LET rest == indices(Tail(shape))
         IN  flatten([k \in 1..Head(shape) |->
                         [n \in 1..Len(rest) |-> <<k - 1>> \o rest[n]]])

\* the value of generated code under the bindings env: a token stands for
\* itself, uget reads one element, a lazy sequence yields one value of its
\* content per item of its mappings, from_shape_fn stores one value of its
\* closure per multi-index of its shape
RECURSIVE evaluate(_, _)
evaluate(code, env) ==
    [n \in 1..Len(code) |->
        LET item == code[n]
        IN  CASE item.kind = "Group" -> Group(item.delimiter, evaluate(item.stream, env))
              [] item.kind = "uget" ->
                     [kind |-> "read", tensor_name |-> item.tensor_name,
                      at |-> [k \in 1..Len(item.indexes) |-> lookup(env, item.indexes[k])]]
              [] item.kind = "lazy_sequence" ->
                     LET tuples == iterate(item.mappings, env)
                     IN  [kind |-> "iterator",
                          items |-> [k \in 1..Len(tuples) |->
                                        [at |-> tuples[k],
                                         value |-> evaluate(item.content_stream,
                                                       bind(env, item.indexes_tuple,
                                                            tuples[k]))]]]
              [] item.kind = "from_shape_fn" ->
                     LET shape == [k \in 1..Len(item.dimensions) |->
                                      lookup(env, item.dimensions[k])]
                         at == indices(shape)
                     IN  [kind |-> "array", shape |-> shape,
                          elements |-> [k \in 1..Len(at) |->
                                           [at |-> at[k],
                                            value |-> evaluate(item.substream,
                                                          bind(env, item.direct_indexes,
                                                               at[k]))]]]
              [] OTHER -> item]

\* the body of the block is evaluated under the bindings of the header
EvaluateBody ==
    /\ pc = "body"
    /\ result' = evaluate(SubSeq(Block, next_stmt, Len(Block)), dims)
    /\ pc' = "value"
    /\ UNCHANGED <<fixed_vars, parse_vars, gen_vars, shapes, dims, next_stmt, failure>>

Next ==
    \/ ParseOther
    \/ ParsePunctSemicolon
    \/ ParsePunctDollar
    \/ ParsePunctOther
    \/ ParseGroupBrace
    \/ ParseGroupBracket
    \/ ParseGroupNested
    \/ ParseSequenceReturn
    \/ ParseReturn
    \/ SequentializeHeader
    \/ SequentializeShapeCreation
    \/ SequentializeExpression
    \/ Execute
    \/ ExecuteLet
    \/ ExecuteAssert
    \/ ExecuteBody
    \/ EvaluateBody

Spec == Init /\ [][Next]_vars

\* the macro is expanded a second time on the same token tree, with fresh
\* registries
CompileAgain ==
    /\ compilation = 1
    /\ pc \in {"Err", "panic", "generated"}
    /\ compilation' = 2
    /\ first_outcome' = [pc |-> pc, error |-> error, output |-> output]
    /\ pc' = "parse_sequence"
    /\ stack' = <<Frame("parse", initial, input, <<>>)>>
    /\ index_use' = IndexUse_new
    /\ tensor_use' = TensorUse_new
    /\ error' = ""
    /\ stream' = <<>>
    /\ output' = <<>>
    /\ UNCHANGED <<input, run_vars, lib_vars, thumb_vars>>

NextTwice == Next \/ CompileAgain

SpecTwice == Init /\ [][NextTwice]_vars

(***************************************************************************)
(* The run-time library: building.rs (shapes, TensorBuilder) and           *)
(* tensors.rs (Tensor::update, Index).                                     *)
(***************************************************************************)
\* A usize is kept exactly as mantissa * 2^exponent, the mantissa odd (or the
\* number 0), so that sizes beyond 2^31 and the overflow of a 64 bit product
\* are computed within 32 bit integers.  Mantissas stay
\* below 2^30: the odd part of a product of at most HighestRank + 1 factors
\* no greater than MaxSize + 1.
RECURSIVE usize(_)
usize(n) ==
    IF n = 0 THEN [mantissa |-> 0, exponent |-> 0]
    ELSE IF n % 2 = 1 THEN [mantissa |-> n, exponent |-> 0]
    ELSE LET half == usize(n \div 2)
         IN  [half EXCEPT !.exponent = @ + 1]

\* the value of a usize that is known to be small
as_nat(x) == x.mantissa * 2 ^ x.exponent

\* the mathematical product
times(x, y) ==
    IF x.mantissa = 0 \/ y.mantissa = 0 THEN usize(0)
    ELSE [mantissa |-> x.mantissa * y.mantissa,
          exponent |-> x.exponent + y.exponent]

\* x <= usize::MAX
fits(x) ==
    \/ x.mantissa = 0
    \/ /\ x.exponent < UsizeBits
       /\ \/ UsizeBits - x.exponent >= 30
          \/ x.mantissa < 2 ^ (UsizeBits - x.exponent)

None == [none |-> TRUE]

\* usize::checked_mul
checked_mul(x, y) ==
    IF fits(times(x, y)) THEN times(x, y) ELSE None

\* the dimensions a caller hands over: 0..MaxSize and one of 2^32 elements
DimensionSizes == {usize(n) : n \in 0..MaxSize} \cup {[mantissa |-> 1, exponent |-> 32]}

\* TensorBuilding has no value: it only names the first step of a chain
TensorBuilding == [dims |-> <<>>]

NoTensor == [rank |-> 0, d |-> <<>>, data |-> <<>>, updates |-> 0]

\* Shape::count
count(s) == s.size

\* the tail shared by with and with_static of TensorNShape: one more
\* dimension, the size multiplied by it
extended(s, dimension, factor) ==
    LET size == checked_mul(s.size, factor)
    IN  IF size = None THEN None
        ELSE [dims |-> Append(s.dims, dimension), size |-> size]

\* what with_first ... with_seventh multiply self.size by, as written in each
\* impl block
with_kth_factor(s, k) ==
    IF Len(s.dims) = 1 THEN s.size
    ELSE IF Len(s.dims) = 2 THEN s.dims[k]
    ELSE IF Len(s.dims) = 3 THEN (IF k = 3 THEN s.dims[2] ELSE s.dims[k])
    ELSE s.dims[1]

\* switch_1k: the first and the k-th dimension trade places
switched(s, k) ==
    [s EXCEPT !.dims = [n \in 1..Len(s.dims) |->
        IF n = 1 THEN s.dims[k] ELSE IF n = k THEN s.dims[1] ELSE s.dims[n]]]

\* the closures the callers pass to define: the two of the tests, and one that
\* gives every multi-index of small coordinates its own value
Generators == {"test", "digits"}

generate(f, at) ==
    IF f = "test"
    THEN IF Len(at) = 3 THEN (3 * at[1] + 2 * at[2] + 5 * at[3]) % 17
         ELSE IF Len(at) = 2 THEN (3 * at[1] + 2 * at[2]) % 7
         ELSE (3 * at[1]) % 7
    ELSE IF Len(at) = 3 THEN 100 * at[1] + 10 * at[2] + at[3]
    ELSE IF Len(at) = 2 THEN 10 * at[1] + at[2]
    ELSE at[1]

\* the multi-indexes the loops of define visit, in the order of the pushes
define_loops_first_fastest(s) ==
    LET d(k) == as_nat(s.dims[k])
    IN  IF Len(s.dims) = 1 THEN [i \in 1..d(1) |-> <<i - 1>>]
        ELSE IF Len(s.dims) = 2
        THEN flatten([i2 \in 1..d(2) |-> [i1 \in 1..d(1) |-> <<i1 - 1, i2 - 1>>]])
        ELSE flatten([i3 \in 1..d(3) |->
                 flatten([i2 \in 1..d(2) |->
                     [i1 \in 1..d(1) |-> <<i1 - 1, i2 - 1, i3 - 1>>]])])

define_loops(s) ==
    LET d(k) == as_nat(s.dims[k])
    IN  IF Len(s.dims) = 1 THEN [i \in 1..d(1) |-> <<i - 1>>]
        ELSE IF Len(s.dims) = 2
        THEN flatten([i1 \in 1..d(1) |-> [i2 \in 1..d(2) |-> <<i1 - 1, i2 - 1>>]])
        ELSE flatten([i1 \in 1..d(1) |->
                 flatten([i2 \in 1..d(2) |->
                     [i3 \in 1..d(3) |-> <<i1 - 1, i2 - 1, i3 - 1>>]])])

\* Tensor1 keeps its data only, Tensor2 and Tensor3 their dimensions too;
\* updates counts the calls of update, which the exploration bounds
define(s, f) ==
    LET visited == define_loops(s)
    IN  [rank |-> Len(s.dims), updates |-> 0,
         d |-> IF Len(s.dims) = 1 THEN <<>> ELSE [k \in 1..Len(s.dims) |-> as_nat(s.dims[k])],
         data |-> [n \in 1..Len(visited) |-> generate(f, visited[n])]]

make_index_3(at, d2, d3) == (at[1] * d2 + at[2]) * d3 + at[3]

\* Index::index of Tensor1, Tensor2 and Tensor3: the panic message, or the
\* element
index(t, at) ==
    IF t.rank = 1
    THEN IF at[1] >= Len(t.data)
         THEN [panic |-> "index out of bounds"]
         ELSE [panic |-> "", element |-> t.data[at[1] + 1]]
    ELSE IF \E k \in 1..t.rank : t.d[k] <= at[k]
    THEN [panic |-> "Invalid index"]
    ELSE IF t.rank = 2
    THEN [panic |-> "", element |-> t.data[at[1] * t.d[2] + at[2] + 1]]
    ELSE [panic |-> "", element |-> t.data[make_index_3(at, t.d[2], t.d[3]) + 1]]

\* the closures the callers pass to update: the one of the test (110 on the
\* diagonal), one that adds one everywhere, one that writes nothing
Updaters == {"diagonal", "increment", "nothing"}

updater(u, at, element) ==
    IF u = "diagonal"
    THEN IF \A k \in 1..Len(at) : at[k] = at[1] THEN 110 ELSE element
    ELSE IF u = "increment" THEN element + 1
    ELSE element

\* the multi-index update computes for the element at offset j of data
update_index_first_fastest(t, j) ==
    IF t.rank = 1 THEN <<j>>
    ELSE IF t.rank = 2 THEN <<j % t.d[1], j \div t.d[1]>>
    ELSE <<j % t.d[1], (j \div t.d[1]) % t.d[2], (j \div t.d[1]) \div t.d[2]>>

update_index(t, j) ==
    IF t.rank = 1 THEN <<j>>
    ELSE IF t.rank = 2 THEN <<j \div t.d[2], j % t.d[2]>>
    ELSE <<(j \div t.d[3]) \div t.d[2], (j \div t.d[3]) % t.d[2], j % t.d[3]>>

\* Tensor::update: the calls made, and the tensor they leave
update_calls(t) ==
    [n \in 1..Len(t.data) |-> [at |-> update_index(t, n - 1), element |-> t.data[n]]]

update(t, u) ==
    [t EXCEPT !.updates = @ + 1,
              !.data = [n \in 1..Len(t.data) |->
                  updater(u, update_index(t, n - 1), t.data[n])]]

\* no TensorPreparation made yet
NoPreparation == [expected_size |-> 0, shape |-> <<>>, data |-> <<>>, appends |-> 0, offered |-> 0]

Building == panic_message = "" /\ built_tensor = NoTensor /\ preparation = NoPreparation

\* TensorBuilding::with, TensorNShape::with
With ==
    /\ Building
    /\ Len(built_shape.dims) < MaxShapeRank /\ Len(built_shape.dims) < HighestRank
    /\ \E dimension \in DimensionSizes :
         LET s == IF built_shape = TensorBuilding
                  THEN [dims |-> <<dimension>>, size |-> dimension]
                  ELSE extended(built_shape, dimension, dimension)
         IN  IF s = None
             THEN panic_message' = "Tensor size is too big" /\ built_shape' = built_shape
             ELSE panic_message' = "" /\ built_shape' = s
    /\ UNCHANGED <<compile_vars, thumb_vars, preparation, built_tensor, calls, read>>

\* TensorBuilding::with_static::<N>, TensorNShape::with_static::<N>
WithStatic ==
    /\ Building
    /\ Len(built_shape.dims) < MaxShapeRank /\ Len(built_shape.dims) < HighestRank
    /\ \E N \in DimensionSizes :
         LET s == IF built_shape = TensorBuilding
                  THEN [dims |-> <<N>>, size |-> N]
                  ELSE extended(built_shape, N, N)
         IN  IF s = None
             THEN panic_message' = "Tensor size is too big" /\ built_shape' = built_shape
             ELSE panic_message' = "" /\ built_shape' = s
    /\ UNCHANGED <<compile_vars, thumb_vars, preparation, built_tensor, calls, read>>

\* with_first ... with_seventh
WithKth ==
    /\ Building
    /\ built_shape # TensorBuilding
    /\ Len(built_shape.dims) < MaxShapeRank /\ Len(built_shape.dims) < HighestRank
    /\ \E k \in 1..Len(built_shape.dims) :
         LET s == extended(built_shape, built_shape.dims[k], with_kth_factor(built_shape, k))
         IN  IF s = None
             THEN panic_message' = "Tensor size is too big" /\ built_shape' = built_shape
             ELSE panic_message' = "" /\ built_shape' = s
    /\ UNCHANGED <<compile_vars, thumb_vars, preparation, built_tensor, calls, read>>

\* switch_12 ... switch_17
Switch ==
    /\ Building
    /\ built_shape # TensorBuilding
    /\ Len(built_shape.dims) < HighestRank
    /\ \E k \in 2..Len(built_shape.dims) : built_shape' = switched(built_shape, k)
    /\ UNCHANGED <<compile_vars, thumb_vars, preparation, built_tensor, calls, read, panic_message>>

\* TensorBuilder::define of Tensor1Shape, Tensor2Shape and Tensor3Shape, for
\* the shapes whose elements fit in memory
Define ==
    /\ Building
    /\ built_shape # TensorBuilding
    /\ Len(built_shape.dims) <= 3
    /\ \A k \in 1..Len(built_shape.dims) : built_shape.dims[k] \in {usize(n) : n \in 0..MaxSize}
    /\ \E f \in Generators :
         /\ built_tensor' = define(built_shape, f)
         /\ calls' = [n \in 1..Len(define_loops(built_shape)) |->
                        [f |-> f, at |-> define_loops(built_shape)[n]]]
    /\ UNCHANGED <<compile_vars, thumb_vars, preparation, built_shape, read, panic_message>>

\* Tensor::update
Update ==
    /\ panic_message = ""
    /\ built_tensor # NoTensor
    /\ built_tensor.updates < MaxUpdates
    /\ \E u \in Updaters :
         /\ built_tensor' = update(built_tensor, u)
         /\ calls' = [n \in 1..Len(built_tensor.data) |->
                        [u |-> u, at |-> update_calls(built_tensor)[n].at,
                         element |-> update_calls(built_tensor)[n].element]]
    /\ read' = <<>>
    /\ UNCHANGED <<compile_vars, thumb_vars, preparation, built_shape, panic_message>>

\* t[(i1, ..., in)]
IndexTensor ==
    /\ panic_message = ""
    /\ built_tensor # NoTensor
    /\ \E at \in [1..built_tensor.rank -> 0..MaxSize] :
         LET r == index(built_tensor, at)
         IN  /\ panic_message' = r.panic
             /\ read' = IF r.panic = "" THEN <<[at |-> at, element |-> r.element]>>
                        ELSE <<>>
         /\ calls' = <<>>
    /\ UNCHANGED <<compile_vars, thumb_vars, preparation, built_shape, built_tensor>>

\* TensorBuilder::prepare of Tensor1Shape, Tensor2Shape and Tensor3Shape;
\* appends counts the calls that added elements, which the exploration
\* bounds, and offered the elements those calls were asked to add
prepare(s) ==
    [expected_size |-> as_nat(count(s)),
     shape |-> [k \in 1..Len(s.dims) |-> as_nat(s.dims[k])],
     data |-> <<>>,
     appends |-> 0,
     offered |-> 0]

count_set_elements(p) == Len(p.data)

\* a subtraction of usize: -1 stands for the one that fails because the
\* result would be negative (a panic or a wrapped value, as the build decides)
count_unset_elements(p) ==
    IF p.expected_size >= Len(p.data) THEN p.expected_size - Len(p.data)
    ELSE -1

\* Vec::truncate
truncate(data, len) == IF Len(data) > len THEN SubSeq(data, 1, len) ELSE data

\* append_vec and append_array: append, then truncate to expected_size
append_vec_unbounded(p, values) ==
    [p EXCEPT !.data = p.data \o values,
              !.appends = @ + 1, !.offered = @ + Len(values)]

append_vec(p, values) ==
    [p EXCEPT !.data = truncate(p.data \o values, p.expected_size),
              !.appends = @ + 1, !.offered = @ + Len(values)]

append_array(p, values) ==
    [p EXCEPT !.data = truncate(p.data \o values, p.expected_size),
              !.appends = @ + 1, !.offered = @ + Len(values)]

fill_during(p, value, additional_count) ==
    LET missing == count_unset_elements(p)
        missing_elements_count ==
            IF missing <= additional_count THEN missing ELSE additional_count
    IN  [p EXCEPT !.data = p.data \o [k \in 1..missing_elements_count |-> value],
                  !.appends = @ + 1, !.offered = @ + additional_count]

\* the generator closure prepare stores: the tensor of the shape and the data
generator_of_first_fastest(p) ==
    [rank |-> Len(p.shape), updates |-> 0,
     d |-> IF Len(p.shape) = 1 THEN <<>> ELSE p.shape,
     data |-> [n \in 1..Len(p.data) |-> p.data[Len(p.data) + 1 - n]]]

generator_of(p) ==
    [rank |-> Len(p.shape), updates |-> 0,
     d |-> IF Len(p.shape) = 1 THEN <<>> ELSE p.shape,
     data |-> p.data]

\* the values a caller appends in its n-th call: they tell the call and the
\* place in the call
supplied(n, len) == [k \in 1..len |-> 10 * n + k]

\* what the callers append: up to MaxSize values, or all the values of a
\* closure of define, listed in the order define calls it
Supplies(p) ==
    {supplied(p.appends + 1, len) : len \in 0..MaxSize}
    \cup {[n \in 1..Len(define_loops(built_shape)) |->
              generate(f, define_loops(built_shape)[n])] : f \in Generators}

Preparing == panic_message = "" /\ built_tensor = NoTensor /\ preparation # NoPreparation

Prepare ==
    /\ Building
    /\ built_shape # TensorBuilding
    /\ Len(built_shape.dims) <= 3
    /\ \A k \in 1..Len(built_shape.dims) :
           built_shape.dims[k] \in {usize(n) : n \in 0..MaxSize}
    /\ preparation' = prepare(built_shape)
    /\ UNCHANGED <<compile_vars, thumb_vars, built_shape, built_tensor, calls, read, panic_message>>

AppendVec ==
    /\ Preparing
    /\ preparation.appends < MaxAppends
    /\ \E values \in Supplies(preparation) :
           preparation' = append_vec(preparation, values)
    /\ UNCHANGED <<compile_vars, thumb_vars, built_shape, built_tensor, calls, read, panic_message>>

AppendArray ==
    /\ Preparing
    /\ preparation.appends < MaxAppends
    /\ \E values \in Supplies(preparation) :
           preparation' = append_array(preparation, values)
    /\ UNCHANGED <<compile_vars, thumb_vars, built_shape, built_tensor, calls, read, panic_message>>

FillDuring ==
    /\ Preparing
    /\ preparation.appends < MaxAppends
    /\ \E additional_count \in 0..MaxSize :
           preparation' = fill_during(preparation, 0, additional_count)
    /\ UNCHANGED <<compile_vars, thumb_vars, built_shape, built_tensor, calls, read, panic_message>>

\* TensorPreparation::fill: the missing elements, then generate
Fill ==
    /\ Preparing
    /\ built_tensor' = generator_of(fill_during(preparation, 0, preparation.expected_size))
    /\ UNCHANGED <<compile_vars, thumb_vars, built_shape, preparation, calls, read, panic_message>>

Generate ==
    /\ Preparing
    /\ IF Len(preparation.data) # preparation.expected_size
       THEN panic_message' = "Invalid size" /\ built_tensor' = built_tensor
       ELSE panic_message' = "" /\ built_tensor' = generator_of(preparation)
    /\ UNCHANGED <<compile_vars, thumb_vars, built_shape, preparation, calls, read>>

\* Err(self) leaves the preparation as it is
TryGenerate ==
    /\ Preparing
    /\ IF Len(preparation.data) # preparation.expected_size
       THEN built_tensor' = built_tensor
       ELSE built_tensor' = generator_of(preparation)
    /\ UNCHANGED <<compile_vars, thumb_vars, built_shape, preparation, calls, read, panic_message>>

InitBuilding ==
    /\ input = <<>>
    /\ pc = "library"
    /\ stack = <<>>
    /\ index_use = IndexUse_new
    /\ tensor_use = TensorUse_new
    /\ error = ""
    /\ stream = <<>>
    /\ output = <<>>
    /\ shapes = EmptyMap
    /\ dims = EmptyMap
    /\ next_stmt = 0
    /\ failure = ""
    /\ result = <<>>
    /\ compilation = 1
    /\ first_outcome = [pc |-> "", error |-> "", output |-> <<>>]
    /\ built_shape = TensorBuilding
    /\ built_tensor = NoTensor
    /\ calls = <<>>
    /\ read = <<>>
    /\ panic_message = ""
    /\ preparation = NoPreparation
    /\ COUNTER = InitialCounter
    /\ callers = [t \in Threads |-> Idle]
    /\ thumbprints = <<>>

NextBuilding ==
    \/ With
    \/ WithStatic
    \/ WithKth
    \/ Switch
    \/ Define
    \/ Update
    \/ IndexTensor

SpecBuilding == InitBuilding /\ [][NextBuilding]_vars

\* the other way to a tensor: a shape, its TensorPreparation, the elements
\* handed over piece by piece
NextPreparing ==
    \/ With
    \/ WithStatic
    \/ WithKth
    \/ Switch
    \/ Prepare
    \/ AppendVec
    \/ AppendArray
    \/ FillDuring
    \/ Fill
    \/ Generate
    \/ TryGenerate

SpecPreparing == InitBuilding /\ [][NextPreparing]_vars


(***************************************************************************)
(* dimensions.rs: generate_thumbprint, called from several threads.        *)
(***************************************************************************)
\* u16::wrapping_mul, computed byte by byte to stay within 32 bit integers
wrapping_mul(n, m) ==
    ((n % 256) * m + (((n \div 256) * m) % 256) * 256) % (2 ^ 16)

\* the | of two u16
RECURSIVE bit_or(_, _)
bit_or(a, b) ==
    IF a = 0 THEN b
    ELSE IF b = 0 THEN a
    ELSE (IF a % 2 = 1 \/ b % 2 = 1 THEN 1 ELSE 0) + 2 * bit_or(a \div 2, b \div 2)

\* the closure given to fetch_update
update_thumbprint(n) == bit_or(wrapping_mul(n, Factor), ForcedBits)

InitThumbprint ==
    /\ input = <<>>
    /\ pc = "library"
    /\ stack = <<>>
    /\ index_use = IndexUse_new
    /\ tensor_use = TensorUse_new
    /\ error = ""
    /\ stream = <<>>
    /\ output = <<>>
    /\ shapes = EmptyMap
    /\ dims = EmptyMap
    /\ next_stmt = 0
    /\ failure = ""
    /\ result = <<>>
    /\ compilation = 1
    /\ first_outcome = [pc |-> "", error |-> "", output |-> <<>>]
    /\ built_shape = TensorBuilding
    /\ built_tensor = NoTensor
    /\ calls = <<>>
    /\ read = <<>>
    /\ panic_message = ""
    /\ preparation = NoPreparation
    /\ COUNTER = InitialCounter
    /\ callers = [t \in Threads |-> Idle]
    /\ thumbprints = <<>>

\* calls begun so far: those that returned and those under way
Begun == Len(thumbprints) + Cardinality({t \in Threads : callers[t].pc # "idle"})

\* fetch_update starts with a load of COUNTER
Load(t) ==
    /\ callers[t].pc = "idle"
    /\ Begun < MaxCalls
    /\ callers' = [callers EXCEPT ![t] = [pc |-> "loaded", prev |-> COUNTER]]
    /\ UNCHANGED <<compile_vars, lib_vars, COUNTER, thumbprints>>

CompareExchangeBlind(t) ==
    /\ callers[t].pc = "loaded"
    /\ COUNTER' = update_thumbprint(callers[t].prev)
    /\ thumbprints' = Append(thumbprints, callers[t].prev)
    /\ callers' = [callers EXCEPT ![t] = Idle]
    /\ UNCHANGED <<compile_vars, lib_vars>>

\* compare_exchange_weak(prev, next): the store and the return of prev when
\* COUNTER still holds prev, otherwise the value found becomes prev and the
\* loop of fetch_update goes round again
CompareExchange(t) ==
    /\ callers[t].pc = "loaded"
    /\ IF COUNTER = callers[t].prev
       THEN /\ COUNTER' = update_thumbprint(callers[t].prev)
            /\ thumbprints' = Append(thumbprints, callers[t].prev)
            /\ callers' = [callers EXCEPT ![t] = Idle]
       ELSE /\ callers' = [callers EXCEPT ![t].prev = COUNTER]
            /\ UNCHANGED <<COUNTER, thumbprints>>
    /\ UNCHANGED <<compile_vars, lib_vars>>

\* compare_exchange_weak may fail although COUNTER holds prev: it returns the
\* value found, which is prev again
SpuriousFailure(t) ==
    /\ callers[t].pc = "loaded"
    /\ COUNTER = callers[t].prev
    /\ callers' = [callers EXCEPT ![t].prev = COUNTER]
    /\ UNCHANGED <<compile_vars, lib_vars, COUNTER, thumbprints>>

NextThumbprint ==
    \E t \in Threads :
        \/ Load(t)
        \/ CompareExchange(t)
        \/ SpuriousFailure(t)

SpecThumbprint == InitThumbprint /\ [][NextThumbprint]_vars


(***************************************************************************)
(* Vocabulary of the properties, stated on the tokens and on the scope     *)
(* tree rather than on the registries.                                     *)
(***************************************************************************)
BareIdentifier(alt) == alt.alt = "Tree" /\ alt.token.kind = "Ident"

\* the names of the maximal run of bare identifiers that ends a scope, in
\* source order
IdentRun(content) ==
    LET n == Len(content)
        starts == {k \in 1..(n + 1) : \A m \in k..n : BareIdentifier(content[m])}
        first == CHOOSE k \in starts : \A m \in starts : k <= m
    IN  [m \in 1..(n + 1 - first) |-> content[first + m - 1].token.name]

HasDuplicate(names) ==
    \E p, q \in 1..Len(names) : p # q /\ names[p] = names[q]

Range(f) == {f[x] : x \in DOMAIN f}

\* the index names of every binder of a scope, nested ones included
RECURSIVE BinderIndexes(_)
BinderIndexes(content) ==
    UNION {CASE content[k].alt = "Func" ->
                    Range(content[k].inverted_indexes)
                        \cup BinderIndexes(content[k].sequence.content)
             [] content[k].alt = "Seq" -> BinderIndexes(content[k].sequence.content)
             [] OTHER -> {} : k \in 1..Len(content)}

\* the index names declared by the binders met so far: the finished ones and
\* those whose body is being parsed
DeclaredByBinders ==
    UNION {BinderIndexes(stack[k].sequence.content) \cup Range(stack[k].inverted_indexes) :
               k \in 1..Len(stack)}

\* the token parse_sequence takes next
AtToken(token_kind) ==
    pc = "parse_sequence" /\ Top.tokens # <<>> /\ Head(Top.tokens).kind = token_kind
AtDollar == AtToken("Punct") /\ Head(Top.tokens).char = "$"
AtBracket == AtToken("Group") /\ Head(Top.tokens).delimiter = "Bracket"
\* a bracket group right after a bare identifier of the same scope
AtSubscript ==
    AtBracket /\ Top.sequence.content # <<>> /\ BareIdentifier(Last(Top.sequence.content))
SubscriptTensor == Last(Top.sequence.content).token.name
\* the identifiers of a group, in order
IdentifiersOf(group_stream) ==
    LET ids == SelectSeq(group_stream, LAMBDA t : t.kind = "Ident")
    IN  [k \in 1..Len(ids) |-> ids[k].name]
OnlyIdentifiersAndCommas(group_stream) ==
    \A k \in 1..Len(group_stream) :
        group_stream[k].kind = "Ident" \/ group_stream[k] = Punct(",")

NoCode == stream = <<>> /\ output = <<>>

\* i i $ a[i]
ExampleReused ==
    <<Ident("i"), Ident("i"), Punct("$"), Ident("a"), Group("Bracket", <<Ident("i")>>)>>

\* C1: a `$` whose own identifier list names an index twice fails with
\* "Illegal reused index name", and from then on no code is generated.
C1_DuplicateInBinderFails ==
    [][/\ (AtDollar /\ HasDuplicate(IdentRun(Top.sequence.content)))
            => (pc' = "Err" /\ error' = ErrReused /\ NoCode')
       /\ pc = "Err" => (pc' = "Err" /\ NoCode')]_vars

C1_Witness ==
    input = ExampleReused /\ pc = "Err" /\ error = ErrReused /\ NoCode

\* C2 as claimed: a `$` whose own identifier list has no duplicate never
\* fails with "Illegal reused index name", whatever other binders declared.
C2_Claimed_PerBinderScope ==
    [][(AtDollar /\ ~HasDuplicate(IdentRun(Top.sequence.content)))
            => error' # ErrReused]_vars

\* C2 as amended: the detection covers the whole compiled unit.  A `$` fails
\* with "Illegal reused index name" exactly when its list repeats a name or
\* names an index that an earlier binder (enclosing, sibling or closed)
\* declared; otherwise all its names are declared and parsing goes on.
C2_DuplicateDetectionIsGlobal ==
    [][AtDollar =>
         LET own == IdentRun(Top.sequence.content)
             reused == HasDuplicate(own) \/ Range(own) \cap DeclaredByBinders # {}
         IN  /\ reused <=> (pc' = "Err" /\ error' = ErrReused)
             /\ ~reused => (pc' = "parse_sequence"
                            /\ DeclaredByBinders' = DeclaredByBinders \cup Range(own))]_vars

\* a sibling or nested binder redeclares an index and is refused
C2_Witness ==
    /\ input \in SiblingPrograms \cup NestedPrograms
    /\ pc = "Err" /\ error = ErrReused
    /\ DeclaredByBinders # {}

\* every subscript of every tensor access of a scope is an index of a binder
\* that encloses the access
RECURSIVE WellScoped(_, _)
WellScoped(content, enclosing) ==
    \A k \in 1..Len(content) :
        CASE content[k].alt = "TensorAccess" -> Range(content[k].indexes) \subseteq enclosing
          [] content[k].alt = "Func" ->
                WellScoped(content[k].sequence.content,
                           enclosing \cup Range(content[k].inverted_indexes))
          [] content[k].alt = "Seq" -> WellScoped(content[k].sequence.content, enclosing)
          [] OTHER -> TRUE

\* C3: whenever parsing succeeds, every subscript of every tensor access is
\* declared by the binder whose body holds the access or by one enclosing it
\* (anything else was refused with "Undeclared index").
C3_Claimed_SubscriptsAreInScope ==
    pc \notin {"parse_sequence", "Err"} => WellScoped(stack[1].sequence.content, {})

\* C4 as claimed: an access to a registered array with another number of
\* subscripts always fails with "Inconsistent number of indexes".
C4_Claimed_AlwaysInconsistent ==
    [][(/\ AtSubscript
        /\ OnlyIdentifiersAndCommas(Head(Top.tokens).stream)
        /\ SubscriptTensor \in DOMAIN tensor_use
        /\ tensor_use[SubscriptTensor] # Len(IdentifiersOf(Head(Top.tokens).stream)))
            => (pc' = "Err" /\ error' = ErrInconsistent)]_vars

\* C4 as amended: the registry records the subscript count of the first
\* access to a name; a later access to that name with another count fails the
\* parse, with "Inconsistent number of indexes" when all its subscripts are
\* declared indexes and with "Undeclared index" otherwise; a registered rank
\* is never overwritten or removed.
C4_RankIsFixedByFirstAccess ==
    [][/\ \A t \in DOMAIN tensor_use :
              t \in DOMAIN tensor_use' /\ tensor_use'[t] = tensor_use[t]
       /\ (AtSubscript /\ OnlyIdentifiersAndCommas(Head(Top.tokens).stream)) =>
            LET t == SubscriptTensor
                subscripts == IdentifiersOf(Head(Top.tokens).stream)
                declared == Range(subscripts) \subseteq Range(index_use.indexes_in_order)
            IN  /\ (t \in DOMAIN tensor_use /\ tensor_use[t] # Len(subscripts))
                     => /\ pc' = "Err"
                        /\ error' = IF declared THEN ErrInconsistent ELSE ErrUndeclared
                /\ (t \notin DOMAIN tensor_use /\ declared)
                     => /\ pc' = "parse_sequence"
                        /\ tensor_use' = tensor_use @@ (t :> Len(subscripts))]_vars

\* i $ a[i] + a[i, i] is refused and a keeps rank 1
C4_Witness ==
    /\ input = <<Ident("i"), Punct("$"), Ident("a"), Group("Bracket", <<Ident("i")>>),
                 Punct("+"), Ident("a"),
                 Group("Bracket", <<Ident("i"), Punct(","), Ident("i")>>)>>
    /\ pc = "Err" /\ error = ErrInconsistent
    /\ tensor_use = ("a" :> 1)

\* a `;` or a brace group somewhere in a stream, at any depth
RECURSIVE ContainsForbidden(_)
ContainsForbidden(tokens) ==
    \E k \in 1..Len(tokens) :
        \/ tokens[k] = Punct(";")
        \/ /\ tokens[k].kind = "Group"
           /\ tokens[k].delimiter = "Brace" \/ ContainsForbidden(tokens[k].stream)

StructuralErrors ==
    {ErrSemicolon, ErrReused, ErrContent, ErrBrace, ErrUndeclared, ErrInconsistent,
     ErrTensorName}

\* C5: an input that holds a `;` or a brace group anywhere (top level, group,
\* binder body, subscript list) is never accepted: parsing goes on until it
\* ends with a structural error, and no code is generated.
C5_ForbiddenTokensAreRejected ==
    ContainsForbidden(input) =>
        /\ NoCode
        /\ \/ pc = "Err" /\ error \in StructuralErrors
           \/ pc = "parse_sequence" /\ error = "" /\ ENABLED Next

\* a `;` or a brace group inside the subscript list of an access whose binder
\* was accepted
C5_Witness ==
    /\ ContainsForbidden(input) /\ ~ContainsForbidden(SelectSeq(input, LAMBDA t : t.kind # "Group"))
    /\ pc = "Err" /\ error = ErrContent
    /\ index_use.indexes_in_order # <<>>

\* C6: a bracket group is accepted only right after a bare identifier of the
\* same scope; anywhere else it fails with the identifier-expected error.
\* When it is accepted, the identifier and the group become one TensorAccess
\* element and the elements before them are untouched.
C6_BracketNeedsIdentifier ==
    [][AtBracket =>
         LET content == Top.sequence.content
         IN  IF content # <<>> /\ BareIdentifier(Last(content))
             THEN /\ pc' = "parse_sequence" =>
                        Top'.sequence.content =
                            Front(content)
                                \o <<[alt |-> "TensorAccess",
                                      tensor_name |-> Last(content).token.name,
                                      indexes |-> IdentifiersOf(Head(Top.tokens).stream)]>>
                  /\ pc' = "Err" => error' \in {ErrContent, ErrUndeclared, ErrInconsistent}
             ELSE pc' = "Err" /\ error' = ErrTensorName]_vars

\* a[..][..]: the first group made one TensorAccess, the second is refused
C6_Witness ==
    /\ pc = "Err" /\ error = ErrTensorName
    /\ Len(Top.sequence.content) = 1
    /\ Top.sequence.content[1].alt = "TensorAccess"

\* Identifier (',' Identifier)*
IsSubscriptList(tokens) ==
    /\ Len(tokens) % 2 = 1
    /\ \A k \in 1..Len(tokens) :
          IF k % 2 = 1 THEN tokens[k].kind = "Ident" ELSE tokens[k] = Punct(",")

\* C7: a bracket group after an array identifier is accepted only if its
\* content is Identifier (',' Identifier)*.
C7_Claimed_SubscriptGrammar ==
    [][(AtSubscript /\ pc' = "parse_sequence")
            => IsSubscriptList(Head(Top.tokens).stream)]_vars

\* the indexes of a scope in the order of their declaration, and the usage
\* sites of a scope in source order, read off the scope tree
RECURSIVE DeclaredInOrder(_)
DeclaredInOrder(content) ==
    IF content = <<>> THEN <<>>
    ELSE LET alt == Head(content)
             here == CASE alt.alt = "Func" ->
                              Reverse(alt.inverted_indexes)
                                  \o DeclaredInOrder(alt.sequence.content)
                       [] alt.alt = "Seq" -> DeclaredInOrder(alt.sequence.content)
                       [] OTHER -> <<>>
         IN  here \o DeclaredInOrder(Tail(content))

RECURSIVE UsageSites(_)
UsageSites(content) ==
    IF content = <<>> THEN <<>>
    ELSE LET alt == Head(content)
             here == CASE alt.alt = "TensorAccess" ->
                              [k \in 1..Len(alt.indexes) |->
                                  [tensor_name |-> alt.tensor_name, axis |-> k - 1,
                                   index |-> alt.indexes[k]]]
                       [] alt.alt \in {"Func", "Seq"} -> UsageSites(alt.sequence.content)
                       [] OTHER -> <<>>
         IN  here \o UsageSites(Tail(content))

Root == stack[1].sequence.content

\* the axis size of a usage site as the header computes it
AxisSizeTokens(site) ==
    [kind |-> "dim", tensor_name |-> site.tensor_name,
     component |-> IF tensor_use[site.tensor_name] = 1 THEN <<>> ELSE <<site.axis>>]

RECURSIVE Concat(_)
Concat(seqs) == IF seqs = <<>> THEN <<>> ELSE Head(seqs) \o Concat(Tail(seqs))

\* one binding per declared index from its first usage site, then one
\* assertion per other usage site of that index
ExpectedHeader ==
    LET declared == DeclaredInOrder(Root)
        StatementsOf(x) ==
            LET sites == SelectSeq(UsageSites(Root), LAMBDA u : u.index = x)
            IN  <<[kind |-> "let", name |-> x \o "_dimension",
                   value |-> AxisSizeTokens(sites[1])]>>
                \o [k \in 1..(Len(sites) - 1) |->
                       [kind |-> "assert", first |-> AxisSizeTokens(sites[1]),
                        second |-> AxisSizeTokens(sites[k + 1])]]
    IN  Concat([k \in 1..Len(declared) |-> StatementsOf(declared[k])])

\* i j $ a[i, j] + b[j]
ExampleAB ==
    <<Ident("i"), Ident("j"), Punct("$"),
      Ident("a"), Group("Bracket", <<Ident("i"), Punct(","), Ident("j")>>),
      Punct("+"), Ident("b"), Group("Bracket", <<Ident("j")>>)>>

DimOf(tensor_name, component) ==
    [kind |-> "dim", tensor_name |-> tensor_name, component |-> component]

\* C8: the emitted header holds, for each declared index in declaration
\* order, one binding from the axis size of its first usage site and then one
\* equality assertion per other usage site, in usage order, and nothing else;
\* for i j $ a[i, j] + b[j] that is two bindings and the assertion of a's
\* axis 1 against b's only axis.
C8_HeaderBindsAndAsserts ==
    /\ pc = "sequentialize_body" =>
          /\ stream = ExpectedHeader
          /\ input = ExampleAB =>
                stream = <<[kind |-> "let", name |-> "i_dimension",
                            value |-> DimOf("a", <<0>>)],
                           [kind |-> "let", name |-> "j_dimension",
                            value |-> DimOf("a", <<1>>)],
                           [kind |-> "assert", first |-> DimOf("a", <<1>>),
                            second |-> DimOf("b", <<>>)]>>
    /\ pc \in {"generated", "header", "body", "panicked"} =>
          /\ SelectSeq(Block, IsHeaderStatement) = ExpectedHeader
          /\ SubSeq(Block, 1, Len(ExpectedHeader)) = ExpectedHeader

C8_Witness ==
    input = ExampleAB /\ pc = "sequentialize_body" /\ Len(stream) = 3

\* C9: the header fails at run time with "Non matching dimensions" exactly
\* when two usage sites of one index have different axis sizes, whatever the
\* shapes are; the shapes play no part before the generated code runs.
C9_MismatchIffAxisSizesDiffer ==
    LET sites == UsageSites(Root)
        AxisSize(u) == shapes[u.tensor_name][u.axis + 1]
        differ == \E p, q \in 1..Len(sites) :
                      sites[p].index = sites[q].index /\ AxisSize(sites[p]) # AxisSize(sites[q])
    IN  /\ pc \in {"body", "panicked"} =>
              /\ (pc = "panicked") <=> differ
              /\ (failure = "Non matching dimensions") <=> differ
        /\ pc \notin {"header", "body", "panicked", "value"} => shapes = EmptyMap /\ failure = ""

\* a is 1 x 2 and b has length 1: axis 1 of a and the axis of b differ
C9_Witness ==
    /\ input = ExampleAB
    /\ pc = "panicked" /\ failure = "Non matching dimensions"
    /\ shapes = ("a" :> <<1, 2>>) @@ ("b" :> <<1>>)

\* the number of nodes of one kind in generated code, at any depth
RECURSIVE CountNodes(_, _)
CountNodes(code, node_kind) ==
    IF code = <<>> THEN 0
    ELSE LET item == Head(code)
             inside == CASE item.kind = "Group" -> CountNodes(item.stream, node_kind)
                         [] item.kind = "lazy_sequence" ->
                                CountNodes(item.content_stream, node_kind)
                         [] item.kind = "from_shape_fn" ->
                                CountNodes(item.substream, node_kind)
                         [] OTHER -> 0
         IN  (IF item.kind = node_kind THEN 1 ELSE 0) + inside
                 + CountNodes(Tail(code), node_kind)

\* the number of binders of a scope, nested ones included
RECURSIVE CountBinders(_)
CountBinders(content) ==
    IF content = <<>> THEN 0
    ELSE LET alt == Head(content)
             here == CASE alt.alt = "Func" -> 1 + CountBinders(alt.sequence.content)
                       [] alt.alt = "Seq" -> CountBinders(alt.sequence.content)
                       [] OTHER -> 0
         IN  here + CountBinders(Tail(content))

\* the input is  x1 .. xn $ ...  with n >= 1 identifiers and nothing else in
\* front of its first `$`
StartsWithBinder(tokens) ==
    \E k \in 2..Len(tokens) :
        tokens[k] = Punct("$") /\ \A m \in 1..(k - 1) : tokens[m].kind = "Ident"

Body == SelectSeq(Block, LAMBDA item : ~IsHeaderStatement(item))

\* C10: the body is one array construction exactly when the top-level scope
\* is a single binder with a non-empty index list (the input starts with
\* identifiers and `$`); its shape lists the binder's indexes in declaration
\* order and every binder inside it is a lazy sequence.  In every other case
\* no array construction is emitted at any depth.
C10_ArrayModeOnlyForTopLevelBinder ==
    pc = "generated" =>
        LET single == Len(Root) = 1 /\ Root[1].alt = "Func"
                          /\ Root[1].inverted_indexes # <<>>
        IN  /\ single <=> StartsWithBinder(input)
            /\ IF single
               THEN /\ Len(Body) = 1 /\ Body[1].kind = "from_shape_fn"
                    /\ Body[1].direct_indexes = Reverse(Root[1].inverted_indexes)
                    /\ Body[1].order = Len(Root[1].inverted_indexes)
                    /\ Body[1].dimensions =
                           [k \in 1..Body[1].order |->
                               Body[1].direct_indexes[k] \o "_dimension"]
                    /\ CountNodes(Body[1].substream, "from_shape_fn") = 0
                    /\ CountNodes(Body[1].substream, "lazy_sequence")
                           = CountBinders(Root[1].sequence.content)
               ELSE /\ CountNodes(Body, "from_shape_fn") = 0
                    /\ CountNodes(Body, "lazy_sequence") =
                           IF Len(Root) = 1 /\ Root[1].alt = "Func"
                           THEN CountBinders(Root[1].sequence.content)
                           ELSE CountBinders(Root)

\* x $ (y $ a[..] + b[..]): an array construction around one lazy sequence
C10_Witness ==
    /\ input \in NestedPrograms
    /\ pc = "generated"
    /\ Len(Body) = 1 /\ Body[1].kind = "from_shape_fn"
    /\ CountNodes(Body[1].substream, "lazy_sequence") = 1
    /\ Body[1].substream[1].kind = "Group"

\* the size of an index at run time: the axis size of its first usage site
SizeOf(x) ==
    LET sites == SelectSeq(UsageSites(Root), LAMBDA u : u.index = x)
    IN  shapes[sites[1].tensor_name][sites[1].axis + 1]

RECURSIVE Product(_)
Product(ds) == IF ds = <<>> THEN 1 ELSE Head(ds) * Product(Tail(ds))

\* the multi-indexes of 0..d1 x ... x 0..dn in lexicographic order, the first
\* component varying slowest: the k-th one is k written in the mixed radix ds
LexicographicOrder(ds) ==
    [k \in 1..Product(ds) |->
        [m \in 1..Len(ds) |->
            ((k - 1) \div Product(SubSeq(ds, m + 1, Len(ds)))) % ds[m]]]

Bindings(env, names, values) ==
    [n \in Range(names) |-> values[CHOOSE k \in 1..Len(names) : names[k] = n]] @@ env

\* what a scope of the parsed tree denotes under the bindings env: a binder
\* denotes one value of its body per multi-index of its indexes
RECURSIVE ValueOfSequence(_, _)
ValueOfSequence(sequence, env) ==
    LET ValueOfAlt(alt) ==
            CASE alt.alt = "Tree" -> <<alt.token>>
              [] alt.alt = "TensorAccess" ->
                     <<[kind |-> "read", tensor_name |-> alt.tensor_name,
                        at |-> [k \in 1..Len(alt.indexes) |->
                                   IF alt.indexes[k] \in DOMAIN env
                                   THEN env[alt.indexes[k]] ELSE alt.indexes[k]]]>>
              [] alt.alt = "Seq" -> ValueOfSequence(alt.sequence, env)
              [] alt.alt = "Func" ->
                     LET declared == Reverse(alt.inverted_indexes)
                         order == LexicographicOrder(
                                      [k \in 1..Len(declared) |-> SizeOf(declared[k])])
                     IN  <<[kind |-> "iterator",
                            items |-> [k \in 1..Len(order) |->
                                          [at |-> order[k],
                                           value |-> ValueOfSequence(alt.sequence,
                                                         Bindings(env, declared,
                                                                  order[k]))]]]>>
        values == Concat([k \in 1..Len(sequence.content) |->
                             ValueOfAlt(sequence.content[k])])
    IN  IF sequence.use_parens THEN <<Group("Parenthesis", values)>> ELSE values

\* C11: in array-construction mode the generated array has the rank of the
\* binder and the shape (d1, .., dn) of its indexes in declaration order; the
\* body is evaluated exactly once per multi-index, in lexicographic order with
\* the first index slowest, and the element at a multi-index is the value of
\* the body under it; for i j $ a[i, j] + b[j] it is a[i, j] + b[j].
C11_ArrayHoldsBodyPerMultiIndex ==
    (pc = "value" /\ StartsWithBinder(input)) =>
        LET declared == Reverse(Root[1].inverted_indexes)
            shape == [k \in 1..Len(declared) |-> SizeOf(declared[k])]
            order == LexicographicOrder(shape)
        IN  /\ Len(result) = 1 /\ result[1].kind = "array"
            /\ Len(result[1].shape) = Len(declared)
            /\ result[1].shape = shape
            /\ [k \in 1..Len(result[1].elements) |-> result[1].elements[k].at] = order
            /\ \A idx \in [1..Len(declared) -> Sizes] :
                  (\A m \in 1..Len(declared) : idx[m] < shape[m]) =>
                      Cardinality({k \in 1..Len(result[1].elements) :
                                      result[1].elements[k].at = idx}) = 1
            /\ \A k \in 1..Len(order) :
                  result[1].elements[k].value =
                      ValueOfSequence(Root[1].sequence,
                                      Bindings(EmptyMap, declared, order[k]))
            /\ input = ExampleAB =>
                  \A k \in 1..Len(order) :
                      result[1].elements[k].value =
                          <<[kind |-> "read", tensor_name |-> "a", at |-> order[k]],
                            Punct("+"),
                            [kind |-> "read", tensor_name |-> "b",
                             at |-> <<order[k][2]>>]>>

\* a is 2 x 2 and b has length 2: four elements, (0, 1) before (1, 0)
C11_Witness ==
    /\ input = ExampleAB /\ pc = "value"
    /\ shapes = ("a" :> <<2, 2>>) @@ ("b" :> <<2>>)
    /\ Len(result[1].elements) = 4
    /\ result[1].elements[2].at = <<0, 1>>

\* the lazy sequences of generated code and the binders of a scope, both in
\* source order, outer before inner
RECURSIVE LazySequences(_)
LazySequences(code) ==
    IF code = <<>> THEN <<>>
    ELSE LET item == Head(code)
             here == CASE item.kind = "Group" -> LazySequences(item.stream)
                       [] item.kind = "lazy_sequence" ->
                              <<item>> \o LazySequences(item.content_stream)
                       [] item.kind = "from_shape_fn" -> LazySequences(item.substream)
                       [] OTHER -> <<>>
         IN  here \o LazySequences(Tail(code))

RECURSIVE BindersOf(_)
BindersOf(content) ==
    IF content = <<>> THEN <<>>
    ELSE LET alt == Head(content)
             here == CASE alt.alt = "Func" -> <<alt>> \o BindersOf(alt.sequence.content)
                       [] alt.alt = "Seq" -> BindersOf(alt.sequence.content)
                       [] OTHER -> <<>>
         IN  here \o BindersOf(Tail(content))

\* the scope lowered in expression mode, or the body of the binder lowered in
\* array-construction mode
LoweredScope ==
    IF Len(Root) = 1 /\ Root[1].alt = "Func" THEN Root[1].sequence ELSE stack[1].sequence

\* the iteration levels of a mappings expression, outermost first
RECURSIVE Levels(_)
Levels(m) ==
    IF m.kind = "tuple" THEN <<>>
    ELSE <<[index |-> m.index, dimension |-> m.dimension, method |-> m.method]>>
             \o Levels(m.mappings)

\* C12: a binder with indexes i1..in, n >= 1, lowered as a lazy sequence has
\* one iteration level per index, the first declared index outermost, every
\* level but the innermost flattening its inner sequences; in expression mode
\* the sequence yields the value of the body exactly once per multi-index of
\* 0..d1 x ... x 0..dn in lexicographic order: d1 * ... * dn items, none when
\* a dimension is 0.
C12_BinderIsNestedLoops ==
    /\ pc \in {"generated", "header", "body", "panicked", "value"} =>
          LET lazy == LazySequences(Block)
              binders == BindersOf(LoweredScope.content)
          IN  /\ Len(lazy) = Len(binders)
              /\ \A b \in 1..Len(binders) :
                    LET declared == Reverse(binders[b].inverted_indexes)
                        n == Len(declared)
                    IN  n >= 1 =>
                          /\ lazy[b].indexes_tuple = declared
                          /\ Levels(lazy[b].mappings) =
                                 [k \in 1..n |->
                                     [index |-> declared[k],
                                      dimension |-> declared[k] \o "_dimension",
                                      method |-> IF k = n THEN "map" ELSE "flat_map"]]
    /\ (pc = "value" /\ ~StartsWithBinder(input)
            /\ \A b \in 1..Len(BindersOf(LoweredScope.content)) :
                   BindersOf(LoweredScope.content)[b].inverted_indexes # <<>>) =>
          /\ result = ValueOfSequence(LoweredScope, EmptyMap)
          /\ \A n \in {Len(result)} \cap {Len(Root)} \cap DOMAIN result :
                (result[n].kind = "iterator" /\ Root[n].alt = "Func") =>
                    LET declared == Reverse(Root[n].inverted_indexes)
                        ds == [k \in 1..Len(declared) |-> SizeOf(declared[k])]
                    IN  /\ Len(result[n].items) = Product(ds)
                        /\ (\E k \in 1..Len(ds) : ds[k] = 0) => result[n].items = <<>>
                        /\ \A k \in 1..Len(result[n].items) :
                              /\ \A m \in 1..Len(ds) : result[n].items[k].at[m] \in 0..(ds[m] - 1)
                              /\ \A k2 \in 1..Len(result[n].items) :
                                    result[n].items[k].at = result[n].items[k2].at => k = k2

\* a binder of two indexes over a 2 x 2 array in expression mode: four items,
\* (0, 1) before (1, 0)
C12_Witness ==
    /\ pc = "value" /\ ~StartsWithBinder(input)
    /\ Len(result) = 1 /\ result[1].kind = "iterator"
    /\ Len(result[1].items) = 4
    /\ result[1].items[2].at = <<0, 1>> /\ result[1].items[3].at = <<1, 0>>

\* sum(x $ min(y $ a[s]))
IsSumOfMins(tokens) ==
    /\ Len(tokens) = 2 /\ tokens[1] = Ident("sum")
    /\ tokens \in AggregationPrograms

\* sum(i $ min(j $ a[i, j]))
ExampleSumMin ==
    <<Ident("sum")>>
        \o Paren(Binder(<<Ident("i")>>,
                        <<Ident("min")>>
                            \o Paren(Binder(<<Ident("j")>>,
                                            Access("a", CommaList(<<"i", "j">>))))))

RECURSIVE SumOver(_)
SumOver(numbers) ==
    IF numbers = <<>> THEN 0 ELSE Head(numbers) + SumOver(Tail(numbers))

RECURSIVE MinOver(_)
MinOver(numbers) ==
    IF Len(numbers) = 1 THEN numbers[1]
    ELSE LET rest == MinOver(Tail(numbers))
         IN  IF Head(numbers) < rest THEN Head(numbers) ELSE rest

\* what sum(<iterator of min(<iterator of one read>)>) amounts to when sum and
\* min consume the iterator they are given and the array holds i * (j + 1) at
\* (i, j)
SumOfMins(value) ==
    LET outer == value[2].stream[1].items
        Row(n) == outer[n].value[2].stream[1].items
    IN  SumOver([n \in 1..Len(outer) |->
                    MinOver([m \in 1..Len(Row(n)) |->
                                Row(n)[m].value[1].at[1]
                                    * (Row(n)[m].value[1].at[2] + 1)])])

\* C13: a binder in the body of another binder is evaluated afresh for every
\* value of the outer index and ranges over its whole dimension; each binder
\* is one lazy sequence handed once to its aggregating function and no array
\* is constructed: sum(i $ min(j $ a[i, j])) is the sum over i of the minimum
\* over j of a[i, j], 36 for the 9 x 10 array a[i, j] = i * (j + 1).
C13_NestedBinderPerOuterValue ==
    /\ (pc = "value" /\ IsSumOfMins(input)) =>
          LET x == Root[2].sequence.content[1].inverted_indexes[1]
              inner == Root[2].sequence.content[1].sequence.content[2].sequence.content[1]
              y == inner.inverted_indexes[1]
              access == inner.sequence.content[1]
              At(vx, vy) == [k \in 1..Len(access.indexes) |->
                                IF access.indexes[k] = x THEN vx ELSE vy]
              Inner(vx) ==
                  [kind |-> "iterator",
                   items |-> [n \in 1..SizeOf(y) |->
                                 [at |-> <<n - 1>>,
                                  value |-> <<[kind |-> "read", tensor_name |-> "a",
                                               at |-> At(vx, n - 1)]>>]]]
              Outer ==
                  [kind |-> "iterator",
                   items |-> [n \in 1..SizeOf(x) |->
                                 [at |-> <<n - 1>>,
                                  value |-> <<Ident("min"),
                                              Group("Parenthesis", <<Inner(n - 1)>>)>>]]]
          IN  /\ result = <<Ident("sum"), Group("Parenthesis", <<Outer>>)>>
              /\ CountNodes(Block, "from_shape_fn") = 0
              /\ CountNodes(Block, "lazy_sequence") = 2
    /\ (pc = "generated" /\ input = ExampleSumMin) =>
          /\ CountNodes(Block, "from_shape_fn") = 0
          /\ SumOfMins(evaluate(Body, ("i_dimension" :> TestRows)
                                          @@ ("j_dimension" :> TestColumns))) = 36

\* a is 2 x 2: two outer items, each holding a fresh inner sequence of two
C13_Witness ==
    /\ pc = "value" /\ input = ExampleSumMin
    /\ shapes = ("a" :> <<2, 2>>)
    /\ Len(result[2].stream[1].items) = 2
    /\ Len(result[2].stream[1].items[2].value[2].stream[1].items) = 2
    /\ SumOfMins(result) = 1

\* the names bound by the header of the block, in the order of the block
HeaderNames == LET lets == SelectSeq(Block, LAMBDA item : item.kind = "let")
               IN  [k \in 1..Len(lets) |-> lets[k].name]

\* C14: compiling the same token tree twice gives the same outcome and the
\* same generated code, and the header names the indexes in the order of
\* their declaration whatever the iteration order of the hash maps is.
C14_SecondCompilationIsIdentical ==
    /\ (compilation = 2 /\ pc \in {"Err", "panic", "generated"}) =>
          [pc |-> pc, error |-> error, output |-> output] = first_outcome
    /\ pc = "generated" =>
          HeaderNames = [k \in 1..Len(DeclaredInOrder(Root)) |->
                            DeclaredInOrder(Root)[k] \o "_dimension"]

C14_Witness ==
    /\ compilation = 2 /\ pc = "generated" /\ input = ExampleAB
    /\ output = first_outcome.output
    /\ HeaderNames = <<"i_dimension", "j_dimension">>

\* an index name the registry knows when a subscript list is met
Declared(name) == Contains(index_use.indexes_in_order, name)

\* C15: parsing fails fast and the error of a subscript list that holds an
\* undeclared index followed by an invalid token is the undeclared-index one.
C15_Claimed_UndeclaredBeforeInvalid ==
    [][(/\ AtSubscript
        /\ \E k \in 1..Len(Head(Top.tokens).stream) :
              LET list == Head(Top.tokens).stream
              IN  /\ list[k].kind = "Ident" /\ ~Declared(list[k].name)
                  /\ OnlyIdentifiersAndCommas(SubSeq(list, 1, k))
                  /\ \A n \in 1..(k - 1) : list[n].kind = "Ident" => Declared(list[n].name)
                  /\ ~OnlyIdentifiersAndCommas(SubSeq(list, k + 1, Len(list))))
            => (pc' = "Err" /\ error' = ErrUndeclared)]_vars

\* the error the token in front raises, "" if none: a function of that token,
\* of the scope it is met in and of the registries built from the tokens
\* before it
Diagnostic ==
    LET token == Head(Top.tokens)
        content == Top.sequence.content
    IN  CASE token = Punct(";") -> ErrSemicolon
          [] token = Punct("$") ->
                 IF \/ HasDuplicate(IdentRun(content))
                    \/ \E k \in 1..Len(IdentRun(content)) : Declared(IdentRun(content)[k])
                 THEN ErrReused ELSE ""
          [] token.kind = "Group" /\ token.delimiter = "Brace" -> ErrBrace
          [] token.kind = "Group" /\ token.delimiter = "Bracket" ->
                 IF content = <<>> \/ ~BareIdentifier(Last(content)) THEN ErrTensorName
                 ELSE IF ~OnlyIdentifiersAndCommas(token.stream) THEN ErrContent
                 ELSE IF \E k \in 1..Len(IdentifiersOf(token.stream)) :
                             ~Declared(IdentifiersOf(token.stream)[k])
                 THEN ErrUndeclared
                 ELSE IF /\ SubscriptTensor \in DOMAIN tensor_use
                         /\ tensor_use[SubscriptTensor] # Len(IdentifiersOf(token.stream))
                 THEN ErrInconsistent
                 ELSE ""
          [] OTHER -> ""

\* C15 (amended): parsing stops at the first token that fails a check: the
\* error is the one of that token, tokens after it play no part, nothing
\* follows an error and an error is never replaced.  The checks of a
\* subscript list run list-wide in the order content, declared indexes,
\* rank, so an undeclared index followed by an invalid token is reported as
\* invalid content.
C15_FailsAtFirstFailingToken ==
    [][/\ pc # "Err"
       /\ error # "" => error' = error
       /\ (pc = "parse_sequence" /\ Top.tokens # <<>>) =>
             IF Diagnostic = ""
             THEN pc' = "parse_sequence" /\ error' = ""
             ELSE pc' = "Err" /\ error' = Diagnostic /\ stream' = <<>> /\ output' = <<>>
       /\ (pc = "parse_sequence" /\ Top.tokens = <<>>) => pc' # "Err" /\ error' = ""]_vars

\* i $ a[j ;]: j is undeclared and `;` is invalid
C15_Witness ==
    /\ input = <<Ident("i"), Punct("$"), Ident("a"),
                 Group("Bracket", <<Ident("j"), Punct(";")>>)>>
    /\ pc = "Err" /\ error = ErrContent
    /\ Top.tokens = <<>>

\* C16: at a `$` the index list of the binder is the maximal run of bare
\* identifiers that ends the current scope (possibly empty), declared from
\* left to right; the run is removed from the scope, what precedes it stays
\* as it is, and the binder that is pushed in the end holds that list.
C16_BinderTakesTrailingIdentifiers ==
    [][/\ (AtDollar /\ pc' # "Err") =>
             LET content == Top.sequence.content
                 run == IdentRun(content)
                 kept == SubSeq(content, 1, Len(content) - Len(run))
             IN  /\ kept # <<>> => ~BareIdentifier(Last(kept))
                 /\ \A k \in 1..Len(run) : content[Len(kept) + k] = Tree(Ident(run[k]))
                 /\ Len(stack') = Len(stack) + 1
                 /\ Top'.caller = "parse_punct"
                 /\ Reverse(Top'.inverted_indexes) = run
                 /\ stack'[Len(stack)].sequence.content = kept
                 /\ index_use'.indexes_in_order = index_use.indexes_in_order \o run
       /\ (pc = "parse_sequence" /\ Top.tokens = <<>> /\ Top.caller = "parse_punct") =>
             LET scope == stack[Len(stack) - 1].sequence.content
                 after == Top'.sequence.content
             IN  /\ Len(stack') = Len(stack) - 1
                 /\ after = Append(scope, Func(Top.inverted_indexes, Top.sequence))
      ]_vars

\* + i j $ ..: the run i j was taken, `+` stayed in the scope
C16_Witness ==
    /\ pc = "parse_sequence" /\ Len(stack) = 2
    /\ Top.caller = "parse_punct" /\ Top.sequence.content = <<>>
    /\ Top.inverted_indexes = <<"j", "i">>
    /\ stack[1].sequence.content = <<Tree(Punct("+"))>>
    /\ index_use.indexes_in_order = <<"i", "j">>

\* in a scope and in every scope inside it, a binder is the last element
RECURSIVE BinderIsLast(_)
BinderIsLast(content) ==
    \A k \in 1..Len(content) :
        CASE content[k].alt = "Func" ->
                 k = Len(content) /\ BinderIsLast(content[k].sequence.content)
          [] content[k].alt = "Seq" -> BinderIsLast(content[k].sequence.content)
          [] OTHER -> TRUE

\* C17: the body of a binder takes every token that is left in the group of
\* its `$` and the enclosing scope gets none of them: once a scope holds a
\* binder nothing is left to parse in it, so every scope of the tree has at
\* most one binder and, if it has one, the binder is its last element.
C17_BinderAbsorbsRestOfGroup ==
    [][/\ \A f \in 1..Len(stack) :
             LET content == stack[f].sequence.content
             IN  /\ BinderIsLast(content)
                 /\ Cardinality({k \in 1..Len(content) : content[k].alt = "Func"}) <= 1
                 /\ (content # <<>> /\ Last(content).alt = "Func") => stack[f].tokens = <<>>
       /\ (AtDollar /\ pc' # "Err") =>
             /\ Top'.tokens = Tail(Top.tokens)
             /\ Top'.sequence.content = <<>>
       /\ (pc = "parse_sequence" /\ Top.tokens = <<>> /\ Top.caller = "parse_punct") =>
             /\ Top'.tokens = <<>>
             /\ Last(Top'.sequence.content).alt = "Func"
      ]_vars

\* (x $ a[..]) + ..: the group of the binder is over, the binder is the only
\* element of its scope and the enclosing scope goes on after the group
C17_Witness ==
    /\ pc = "Ok" /\ input \in SiblingPrograms
    /\ Len(Root) >= 3
    /\ Root[1].alt = "Seq"
    /\ Len(Root[1].sequence.content) = 1
    /\ Root[1].sequence.content[1].alt = "Func"
    /\ Len(Root[1].sequence.content[1].sequence.content) = 1


(***************************************************************************)
(* Properties of the run-time library.                                     *)
(***************************************************************************)
\* the product of the sizes of the dimensions, as a number
RECURSIVE ProductOfSizes(_)
ProductOfSizes(ds) ==
    IF ds = <<>> THEN usize(1) ELSE times(Head(ds), ProductOfSizes(Tail(ds)))

\* C18 (as claimed): whatever chain of with, with_static, with_first ...
\* with_seventh and switch_XY calls built a shape without panicking, count()
\* of the shape is the product of the sizes of its dimensions.
C18_Claimed_CountIsProductOfDimensions ==
    built_shape # TensorBuilding =>
        count(built_shape) = ProductOfSizes(built_shape.dims)

\* the sizes of the dimensions of the shape built, as naturals
SizesOf(s) == [k \in 1..Len(s.dims) |-> as_nat(s.dims[k])]

\* every in-bounds multi-index of a shape of these sizes
MultiIndexes(sizes) ==
    {at \in [1..Len(sizes) -> 0..MaxSize] : \A k \in 1..Len(sizes) : at[k] < sizes[k]}

\* row-major order: the first coordinate that differs decides
Precedes(at, other) ==
    \E k \in 1..Len(at) :
        /\ at[k] < other[k]
        /\ \A j \in 1..(k - 1) : at[j] = other[j]

\* C19: when define(f) builds a tensor of rank 1, 2 or 3, f is called exactly
\* once for every multi-index of the shape, the calls come in row-major
\* order (last index fastest), and checked indexing at any in-bounds
\* multi-index returns what f returned for it.
C19_DefineCallsOncePerIndexRowMajor ==
    [][(built_tensor = NoTensor /\ built_tensor' # NoTensor
            /\ preparation = NoPreparation) =>
        LET sizes == SizesOf(built_shape)
        IN  /\ \A n \in DOMAIN calls' : calls'[n].at \in MultiIndexes(sizes)
            /\ \A at \in MultiIndexes(sizes) :
                   Cardinality({n \in DOMAIN calls' : calls'[n].at = at}) = 1
            /\ \A n \in 1..(Len(calls') - 1) : Precedes(calls'[n].at, calls'[n + 1].at)
            /\ \A at \in MultiIndexes(sizes) :
                   index(built_tensor', at) =
                       [panic |-> "", element |-> generate(calls'[1].f, at)]
     ]_vars

\* a tensor of rank 3 with at least two elements along every axis has just been
\* defined by the closure that tells the multi-indexes apart
C19_Witness ==
    /\ built_tensor.rank = 3
    /\ built_tensor.updates = 0
    /\ preparation = NoPreparation
    /\ \A k \in 1..3 : built_tensor.d[k] >= 2
    /\ Len(calls) = Len(built_tensor.data)
    /\ calls[1].f = "digits"

\* the dimensions of a tensor, as Tensor::shape returns them
ShapeOf(t) == IF t.rank = 1 THEN <<Len(t.data)>> ELSE t.d

\* C20: update calls the updater exactly once per stored element, with the
\* multi-index at which checked indexing returns that element; afterwards
\* the element at every multi-index is what the updater made of it, so it
\* differs from the previous value only where the updater changed it.
C20_UpdateVisitsEveryElementOnce ==
    [][(built_tensor'.updates = built_tensor.updates + 1) =>
        LET before == built_tensor
            after == built_tensor'
            all == MultiIndexes(ShapeOf(before))
        IN  /\ Len(calls') = Len(before.data)
            /\ \A n \in DOMAIN calls' :
                   /\ calls'[n].at \in all
                   /\ calls'[n].element = before.data[n]
                   /\ index(before, calls'[n].at) =
                          [panic |-> "", element |-> before.data[n]]
            /\ \A at \in all :
                   Cardinality({n \in DOMAIN calls' : calls'[n].at = at}) = 1
            /\ ShapeOf(after) = ShapeOf(before)
            /\ \A at \in all :
                   LET old == index(before, at).element
                       new == index(after, at).element
                   IN  /\ new = updater(calls'[1].u, at, old)
                       /\ new # old => updater(calls'[1].u, at, old) # old
     ]_vars

\* the updater of the test has run on a 2 x 2 tensor or larger: the diagonal
\* holds 110 and nothing else does
C20_Witness ==
    /\ built_tensor.rank = 2
    /\ built_tensor.updates = 1
    /\ \A k \in 1..2 : built_tensor.d[k] >= 2
    /\ Len(calls) = Len(built_tensor.data)
    /\ calls[1].u = "diagonal"
    /\ \A at \in MultiIndexes(built_tensor.d) :
           (index(built_tensor, at).element = 110) <=> (at[1] = at[2])

\* the row-major offset of a multi-index: the last index is the fastest
RECURSIVE OffsetUpTo(_, _, _)
OffsetUpTo(at, sizes, k) ==
    IF k = 0 THEN 0 ELSE OffsetUpTo(at, sizes, k - 1) * sizes[k] + at[k]

Offset(at, sizes) == OffsetUpTo(at, sizes, Len(sizes))

\* the values of a closure listed in row-major order
RowMajorListing(f, sizes) ==
    [n \in 1..Product(sizes) |->
        generate(f, CHOOSE at \in MultiIndexes(sizes) : Offset(at, sizes) = n - 1)]

\* C21: when generate (or try_generate, or fill on a complete preparation)
\* turns a preparation holding count() values v into a tensor, indexing the
\* tensor at a multi-index returns the value at its row-major offset in v,
\* and if v lists the values of f in row-major order the tensor equals the
\* one define(f) builds from the same shape.
C21_PreparedTensorEqualsDefined ==
    [][(built_tensor = NoTensor /\ built_tensor' # NoTensor
            /\ preparation # NoPreparation
            /\ count_set_elements(preparation) = as_nat(count(built_shape))) =>
        LET sizes == SizesOf(built_shape)
            v == preparation.data
        IN  /\ \A at \in MultiIndexes(sizes) :
                   index(built_tensor', at) =
                       [panic |-> "", element |-> v[Offset(at, sizes) + 1]]
            /\ \A f \in Generators :
                   v = RowMajorListing(f, sizes) =>
                       built_tensor' = define(built_shape, f)
     ]_vars

\* one append of all the values of the closure that tells the multi-indexes
\* apart, on a shape of rank 3 with two elements or more on every axis, then
\* generate
C21_Witness ==
    /\ built_tensor # NoTensor
    /\ preparation # NoPreparation
    /\ preparation.appends = 1
    /\ Len(preparation.shape) = 3
    /\ \A k \in 1..3 : preparation.shape[k] >= 2
    /\ preparation.data = RowMajorListing("digits", preparation.shape)
    /\ built_tensor = define(built_shape, "digits")

\* C29: every append_vec, append_array and fill_during leaves no more than
\* expected_size elements set, set and unset elements add up to
\* expected_size without the subtraction failing, the elements stored before
\* stay where they were, and of the elements offered only those that still
\* fit are kept.
C29_PreparationNeverOverfills ==
    [][(preparation'.appends = preparation.appends + 1) =>
        LET before == preparation
            after == preparation'
            asked == after.offered - before.offered
            room == before.expected_size - Len(before.data)
        IN  /\ after.expected_size = before.expected_size
            /\ after.expected_size = as_nat(count(built_shape))
            /\ count_set_elements(after) <= after.expected_size
            /\ count_unset_elements(after) >= 0
            /\ count_set_elements(after) + count_unset_elements(after)
                   = after.expected_size
            /\ Len(after.data) >= Len(before.data)
            /\ SubSeq(after.data, 1, Len(before.data)) = before.data
            /\ Len(after.data) - Len(before.data)
                   = (IF asked <= room THEN asked ELSE room)
     ]_vars

\* a second call offered more elements than were missing: the preparation is
\* full and the surplus is gone
C29_Witness ==
    /\ preparation.appends = 2
    /\ preparation.expected_size >= 2
    /\ Len(preparation.data) = preparation.expected_size
    /\ preparation.offered > preparation.expected_size
    /\ preparation.data[1] = 11

(***************************************************************************)
(* Properties of generate_thumbprint.                                      *)
(***************************************************************************)
\* C22 (as claimed): the thumbprints returned by distinct calls of
\* generate_thumbprint are pairwise distinct.
C22_Claimed_ThumbprintsAreDistinct ==
    \A i, j \in DOMAIN thumbprints : i # j => thumbprints[i] # thumbprints[j]

\* C28: however the calls of the threads interleave, the values returned so
\* far are the first terms of the sequence x0 = 0xF091,
\* x(k+1) = ((x(k) * 0x9CA3) mod 2^16) | 0x34E1, one term per call that
\* returned, and COUNTER holds the term after them: no update is lost and no
\* term is returned twice for the same step.
C28_ThumbprintsFollowTheSequence ==
    /\ \A k \in DOMAIN thumbprints :
           thumbprints[k] = IF k = 1 THEN InitialCounter
                            ELSE update_thumbprint(thumbprints[k - 1])
    /\ COUNTER = IF thumbprints = <<>> THEN InitialCounter
                 ELSE update_thumbprint(thumbprints[Len(thumbprints)])

\* a thread that loaded COUNTER was overtaken: the value it holds has been
\* returned to another call since, and COUNTER has moved on
C28_Witness ==
    /\ Len(thumbprints) >= 2
    /\ \E t \in Threads :
           /\ callers[t].pc = "loaded"
           /\ callers[t].prev # COUNTER
           /\ \E k \in DOMAIN thumbprints : thumbprints[k] = callers[t].prev

(***************************************************************************)
(* The order of the generated block.                                       *)
(***************************************************************************)
\* the header statements at the start of a block
RECURSIVE HeaderLength(_)
HeaderLength(block) ==
    IF block = <<>> \/ ~IsHeaderStatement(Head(block)) THEN 0
    ELSE 1 + HeaderLength(Tail(block))

\* the number of header statements of generated code, at any depth
HeaderStatements(code) == CountNodes(code, "let") + CountNodes(code, "assert")

\* the nodes of the body that read an element, build an array or create a
\* sequence
BodyWork(code) ==
    CountNodes(code, "uget") + CountNodes(code, "from_shape_fn")
        + CountNodes(code, "lazy_sequence")

\* C23: the generated block is its header statements followed by its body,
\* with no header statement after a body token at any depth; at run time the
\* body starts only when every binding of the header is made and every
\* assertion has been found equal, no value of the body exists before that,
\* and a header that fails leaves the body unevaluated.
C23_HeaderBeforeBody ==
    /\ pc \in {"generated", "header", "body", "value", "panicked"} =>
           /\ HeaderStatements(Block) = HeaderLength(Block)
           /\ HeaderStatements(SubSeq(Block, HeaderLength(Block) + 1, Len(Block))) = 0
           /\ BodyWork(SubSeq(Block, 1, HeaderLength(Block))) = 0
    /\ pc = "header" =>
           /\ next_stmt <= HeaderLength(Block) + 1
           /\ result = <<>>
    /\ pc = "panicked" =>
           /\ next_stmt <= HeaderLength(Block)
           /\ Block[next_stmt].kind = "assert"
           /\ result = <<>>
    /\ pc \in {"body", "value"} =>
           /\ next_stmt = HeaderLength(Block) + 1
           /\ \A k \in 1..HeaderLength(Block) :
                  IF Block[k].kind = "let"
                  THEN /\ Block[k].name \in DOMAIN dims
                       /\ dims[Block[k].name] = dim(shapes, Block[k].value)
                  ELSE dim(shapes, Block[k].first) = dim(shapes, Block[k].second)
    /\ pc = "body" => result = <<>>

\* a block with a binding, an assertion and an array construction that reads
\* elements has been run to its value
C23_Witness ==
    /\ pc = "value"
    /\ CountNodes(Block, "let") >= 2
    /\ CountNodes(Block, "assert") >= 1
    /\ CountNodes(Block, "from_shape_fn") = 1
    /\ CountNodes(Block, "uget") >= 2
    /\ result # <<>>

(***************************************************************************)
(* The unchecked reads of the generated block.                             *)
(***************************************************************************)
\* the unchecked reads the code executes under the bindings env, in order:
\* the array, whether every index of the read is bound by the block, and the
\* multi-index read when it is
RECURSIVE ExecutedReads(_, _)
ExecutedReads(code, env) ==
    IF code = <<>> THEN <<>>
    ELSE LET item == Head(code)
             here ==
                 CASE item.kind = "Group" -> ExecutedReads(item.stream, env)
                   [] item.kind = "uget" ->
                          LET bound == \A k \in 1..Len(item.indexes) :
                                           item.indexes[k] \in DOMAIN env
                          IN  <<[tensor_name |-> item.tensor_name,
                                 bound |-> bound,
                                 at |-> IF bound
                                        THEN [k \in 1..Len(item.indexes) |->
                                                 env[item.indexes[k]]]
                                        ELSE <<>>]>>
                   [] item.kind = "lazy_sequence" ->
                          LET tuples == iterate(item.mappings, env)
                          IN  flatten([k \in 1..Len(tuples) |->
                                          ExecutedReads(item.content_stream,
                                              bind(env, item.indexes_tuple, tuples[k]))])
                   [] item.kind = "from_shape_fn" ->
                          LET at == indices([k \in 1..Len(item.dimensions) |->
                                                lookup(env, item.dimensions[k])])
                          IN  flatten([k \in 1..Len(at) |->
                                          ExecutedReads(item.substream,
                                              bind(env, item.direct_indexes, at[k]))])
                   [] OTHER -> <<>>
         IN  here \o ExecutedReads(Tail(code), env)

\* the reads of the body of the block that has been run
ReadsOfBody == ExecutedReads(SubSeq(Block, next_stmt, Len(Block)), dims)

\* C24 (as claimed): once the header has completed without failure, every
\* unchecked read the body executes uses index values bound by the block,
\* each below the size of the array on the axis where it is used.
C24_Claimed_ReadsAreInBounds ==
    pc = "value" =>
        \A n \in DOMAIN ReadsOfBody :
            /\ ReadsOfBody[n].bound
            /\ \A k \in DOMAIN ReadsOfBody[n].at :
                   ReadsOfBody[n].at[k] < shapes[ReadsOfBody[n].tensor_name][k]

(***************************************************************************)
(* The usage sites recorded by the parse.                                  *)
(***************************************************************************)
\* the subscript occurrences of one index in the scope tree, in source
\* order, as the positions IndexUse records
OccurrencesOf(index_name) ==
    LET sites == SelectSeq(UsageSites(Root), LAMBDA u : u.index = index_name)
    IN  [k \in 1..Len(sites) |->
            RicciPosition(sites[k].tensor_name, sites[k].axis, index_name)]

ParsedSuccessfully ==
    pc \in {"Ok", "sequentialize_body", "panic", "generated", "header", "body",
            "panicked", "value"}

\* C25: after a successful parse the usage sites recorded for an index are
\* its subscript occurrences in source order with 0-based axis positions,
\* every site names an array of the Tensor Registry with a rank above the
\* axis position, and header emission never fails with "Missing tensor name".
C25_UsageSitesAreTheOccurrences ==
    ParsedSuccessfully =>
        /\ DOMAIN index_use.correspondence =
               {UsageSites(Root)[k].index : k \in DOMAIN UsageSites(Root)}
        /\ \A x \in DOMAIN index_use.correspondence :
               /\ index_use.correspondence[x] = OccurrencesOf(x)
               /\ \A k \in DOMAIN index_use.correspondence[x] :
                      LET site == index_use.correspondence[x][k]
                      IN  /\ site.tensor_name \in DOMAIN tensor_use
                          /\ site.position >= 0
                          /\ site.position < tensor_use[site.tensor_name]
                          /\ get_order(tensor_use, site.tensor_name).panic = ""
        /\ error # PanicMissing

\* i j $ a[i, j] + b[j] has been parsed and its header emitted: j has the
\* sites (a, 1) and (b, 0), in that order
C25_Witness ==
    /\ input = ExampleAB
    /\ pc = "sequentialize_body"
    /\ index_use.correspondence["j"] =
           <<RicciPosition("a", 1, "j"), RicciPosition("b", 0, "j")>>
    /\ index_use.correspondence["i"] = <<RicciPosition("a", 0, "i")>>

(***************************************************************************)
(* Header emission for every declared index.                               *)
(***************************************************************************)
\* C26 (as claimed): for every input that parses successfully, header
\* emission completes without a fatal failure and the header holds exactly
\* one dimension binding for each declared index, used in a subscript or not.
C26_Claimed_HeaderForEveryDeclaredIndex ==
    /\ pc # "panic"
    /\ pc = "sequentialize_body" =>
           /\ CountNodes(stream, "let") = Len(index_use.indexes_in_order)
           /\ \A k \in DOMAIN index_use.indexes_in_order :
                  \E n \in DOMAIN stream :
                      /\ stream[n].kind = "let"
                      /\ stream[n].name = dimension_name(index_use.indexes_in_order[k])

(***************************************************************************)
(* Inputs without any construct of the notation.                           *)
(***************************************************************************)
\* no index marker, no bracket group, no brace group and no semicolon, at
\* any depth
RECURSIVE IsPlain(_)
IsPlain(tokens) ==
    \A k \in DOMAIN tokens :
        CASE tokens[k].kind = "Punct" -> tokens[k].char \notin {"$", ";"}
          [] tokens[k].kind = "Group" ->
                 /\ tokens[k].delimiter \in {"Parenthesis", "None"}
                 /\ IsPlain(tokens[k].stream)
          [] OTHER -> TRUE

\* the tokens in the same order, every parenthesised group kept as one and
\* every group without delimiter replaced by its content
RECURSIVE Flattened(_)
Flattened(tokens) ==
    IF tokens = <<>> THEN <<>>
    ELSE LET token == Head(tokens)
             first == IF token.kind # "Group" THEN <<token>>
                      ELSE IF token.delimiter = "Parenthesis"
                           THEN <<Group("Parenthesis", Flattened(token.stream))>>
                           ELSE Flattened(token.stream)
         IN  first \o Flattened(Tail(tokens))

\* the groups of one delimiter among tokens, at any depth
RECURSIVE CountGroups(_, _)
CountGroups(tokens, delimiter) ==
    IF tokens = <<>> THEN 0
    ELSE (IF Head(tokens).kind = "Group"
          THEN (IF Head(tokens).delimiter = delimiter THEN 1 ELSE 0)
                   + CountGroups(Head(tokens).stream, delimiter)
          ELSE 0)
         + CountGroups(Tail(tokens), delimiter)

\* C27: an input without `$`, bracket group, brace group and `;` compiles
\* with an empty header, and the generated code is one brace block that
\* holds the tokens of the input unchanged and in order, parenthesised groups
\* kept and groups without delimiter flattened into their parent.
C27_PlainInputPassesThrough ==
    IsPlain(input) =>
        /\ pc \notin {"Err", "panic"}
        /\ error = ""
        /\ index_use = IndexUse_new
        /\ tensor_use = TensorUse_new
        /\ pc = "sequentialize_body" => stream = <<>>
        /\ pc \in {"generated", "header", "body", "value"} =>
               /\ output = <<Group("Brace", Flattened(input))>>
               /\ HeaderLength(Block) = 0

\* an input with a parenthesised group and a group without delimiter, both
\* with tokens inside, has been compiled
C27_Witness ==
    /\ IsPlain(input)
    /\ pc = "generated"
    /\ CountGroups(input, "Parenthesis") >= 1
    /\ CountGroups(input, "None") >= 1
    /\ Len(Flattened(input)) >= 2
    /\ \E k \in DOMAIN input :
           input[k].kind = "Group" /\ input[k].stream # <<>>

(***************************************************************************)
(* The end of a compilation.                                               *)
(***************************************************************************)
\* one step of parse or of sequentialize
Compile ==
    \/ ParseOther
    \/ ParsePunctSemicolon
    \/ ParsePunctDollar
    \/ ParsePunctOther
    \/ ParseGroupBrace
    \/ ParseGroupBracket
    \/ ParseGroupNested
    \/ ParseSequenceReturn
    \/ ParseReturn
    \/ SequentializeHeader
    \/ SequentializeShapeCreation
    \/ SequentializeExpression

\* sequentialize has returned the block
Done == pc \in {"generated", "header", "body", "panicked", "value"}

\* C30 (as claimed): a compilation that can take no further step has ended
\* either in one compile error, with no header and no body emitted, or in
\* Done with the generated block; it ends nowhere else.
C30_Claimed_EndsInErrorOrDone ==
    /\ pc = "Err" => error # "" /\ stream = <<>> /\ output = <<>>
    /\ ~ENABLED Compile =>
           \/ pc = "Err"
           \/ Done /\ Len(output) = 1 /\ output[1].delimiter = "Brace"

\* the expansion of the macro is one call that runs until it returns or
\* panics: a compile step that is possible is taken
SpecCompiling == Init /\ [][Next]_vars /\ WF_vars(Compile)

\* under SpecCompiling every compilation stops: in a compile error, in Done,
\* or in the panic of the header step
CompilationStops == <>(pc \in {"Err", "panic"} \/ Done)

=============================================================================
